---- MODULE Spec2Model ----
(***************************************************************************)
(* Incremental crawl state machine of the UAE scrapers.                    *)
(*                                                                         *)
(*   variant "J"  DIFCCourtsScraper      (UAE_judgements.py, ledger =      *)
(*                ScraperTracker on scraper_state.json)                    *)
(*   variant "D"  DIFCDailyCrawler       (UAE_judgements_crawler.py,       *)
(*                ledger = StateManager on scraper_state.json and          *)
(*                crawler_state.json)                                      *)
(*   variant "L"  scrape_legislations    (law_only_uae.py, ledger =        *)
(*                CrawlerState; weekly_mode is set by                      *)
(*                law_weekly_crawler.main)                                 *)
(*                                                                         *)
(* One collection is scanned per run.  The listing site is a newest-first  *)
(* sequence of URLs that only grows at the front (Publish).  A process can *)
(* be killed between any two steps (Kill); the next run starts from what   *)
(* is on disk.                                                             *)
(***************************************************************************)
EXTENDS Integers, Sequences, FiniteSets, TLC

MaxLen == 3
MaxLegs == 5
PageSize == 2
MaxDup == 1
MaxWrites == 2
MaxKeys == 2
MaxCats == 4
MaxStr == 2
MaxClock == 3
RestartEvery == 40

VARIABLES
    variant,      \* which crawler the current / last process is
    site,         \* the listing of the collection, newest first
    disk,         \* the persisted state files
    mem,          \* the in-memory ledger and cursor of the running process
    pc,           \* position of the running process
    loc,          \* the locals of the scan loop
    hist,         \* observation of the current scan (not read by the code)
    prev,         \* observation of the previous run (not read by the code)
    fs,           \* the state files as bytes on disk, one persist at a time
    call          \* the calls made and observed when one class or method is
                  \* driven on its own (SpecLedger, SpecApi, SpecRun)

vars == <<variant, site, disk, mem, pc, loc, hist, prev, fs, call>>


Min(a, b) == IF a < b THEN a ELSE b
Max(a, b) == IF a > b THEN a ELSE b
URLs == 1..Max(MaxLen, MaxLegs)
Range(s) == {s[i] : i \in 1..Len(s)}

-----------------------------------------------------------------------------
(* Page Source                                                             *)

\* get_total_pages: the largest page number of the pagination links, 1 if none
get_total_pages(s) ==
    IF Len(s) = 0 THEN 1 ELSE (Len(s) + PageSize - 1) \div PageSize

\* the entries of listing page p
PageOf(s, p) ==
    SubSeq(s, (p - 1) * PageSize + 1, Min(p * PageSize, Len(s)))

-----------------------------------------------------------------------------
(* Ledger and cursor                                                       *)

EmptyMem == [urls |-> {}, cat |-> "unknown", failed |-> {}, last_page |-> 0]

EmptyDisk ==
    [main    |-> [urls |-> {}, cat |-> "unknown"],
     crawler |-> [urls |-> {}],
     leg     |-> [urls |-> {}, failed |-> {}, last_page |-> 0]]

load_state_fresh(d) == EmptyMem

\* ScraperTracker.load_state
load_state(d) ==
    [urls |-> d.main.urls, cat |-> d.main.cat, failed |-> {}, last_page |-> 0]

\* StateManager._load: the keys of both files, categories of both
StateManager_load(d) ==
    [urls |-> d.main.urls \cup d.crawler.urls,
     cat |-> d.main.cat, failed |-> {}, last_page |-> 0]

\* CrawlerState._load
CrawlerState_load(d) ==
    [urls |-> d.leg.urls, cat |-> "unknown", failed |-> d.leg.failed,
     last_page |-> d.leg.last_page]

is_processed_never(m, u) == FALSE

\* ScraperTracker.is_processed / StateManager.is_processed /
\* CrawlerState.is_downloaded on the in-memory ledger m
is_processed(m, u) == u \in m.urls

is_category_complete(m) == m.cat = "completed"

save_state_inplace(w, ok) ==
    IF ok THEN [w EXCEPT !.disk.main = [urls |-> w.mem.urls, cat |-> w.mem.cat]]
    ELSE [w EXCEPT !.disk.main = [urls |-> {}, cat |-> "unknown"]]

\* ScraperTracker.save_state: the whole in-memory state replaces the file;
\* ok = FALSE is the write raising (caught and printed)
save_state(w, ok) ==
    IF ok THEN [w EXCEPT !.disk.main = [urls |-> w.mem.urls, cat |-> w.mem.cat]]
    ELSE w

mark_processed_unsaved(w, u, ok) == [w EXCEPT !.mem.urls = @ \cup {u}]

\* ScraperTracker.mark_processed
mark_processed(w, u, ok) ==
    save_state([w EXCEPT !.mem.urls = @ \cup {u}], ok)

set_category_status_in_memory(w, status, ok) ==
    [w EXCEPT !.mem.cat = status]

set_category_status_if_saved(w, status, ok) ==
    IF ok THEN save_state([w EXCEPT !.mem.cat = status], ok) ELSE w

\* ScraperTracker.set_category_status
set_category_status(w, status, ok) ==
    save_state([w EXCEPT !.mem.cat = status], ok)

StateManager_mark_processed_in_memory(w, u, ok) ==
    [w EXCEPT !.mem.urls = @ \cup {u}]

\* StateManager.mark_processed with _append_to_crawler_state
StateManager_mark_processed(w, u, ok) ==
    [w EXCEPT !.mem.urls = @ \cup {u},
              !.disk.crawler.urls = IF ok THEN @ \cup {u} ELSE @]

\* StateManager.set_category_status: in memory only
StateManager_set_category_status(w, status) ==
    [w EXCEPT !.mem.cat = status]

sync_to_main_state_replacing(d, ok) ==
    IF ok
    THEN [d EXCEPT !.main.urls = d.crawler.urls]
    ELSE d

\* StateManager.sync_to_main_state: crawler entries not yet in main are added
sync_to_main_state(d, ok) ==
    IF ok
    THEN [d EXCEPT !.main.urls = @ \cup d.crawler.urls]
    ELSE d

\* CrawlerState.save
CrawlerState_save(w, ok) ==
    IF ok THEN [w EXCEPT !.disk.leg = [urls |-> w.mem.urls,
                                       failed |-> w.mem.failed,
                                       last_page |-> w.mem.last_page]]
    ELSE w

mark_downloaded_keeping_failed(w, u, ok) ==
    CrawlerState_save([w EXCEPT !.mem.urls = @ \cup {u}], ok)

\* CrawlerState.mark_downloaded
mark_downloaded(w, u, ok) ==
    CrawlerState_save([w EXCEPT !.mem.urls = @ \cup {u},
                                !.mem.failed = @ \ {u}], ok)

\* CrawlerState.mark_failed
mark_failed(w, u, ok) ==
    CrawlerState_save([w EXCEPT !.mem.failed = @ \cup {u}], ok)

\* CrawlerState.set_last_page
set_last_page(w, p, ok) ==
    CrawlerState_save([w EXCEPT !.mem.last_page = p], ok)

World == [mem |-> mem, disk |-> disk]

-----------------------------------------------------------------------------
(* Document Fetcher.  r is what the site, the browser, the download folder *)
(* and S3 do to this attempt; ok is whether the state file write of a mark *)
(* succeeds.  Each operator returns the world after the attempt, what the  *)
(* call returns, and bad: the URL was marked though nothing was uploaded.  *)

\* DIFCCourtsScraper.scrape_detail_page / download_direct_pdf
\*   "ok"       PDF saved, uploaded, local copy deleted, URL marked
\*   "noupload" PDF saved, upload_to_s3 returned False: not marked, True
\*   "exists"   a PDF of the page title is already in the folder: marked
\*   "fail"     navigation, content or PDF error: returns False
\*   "raise"    an exception leaves the method (raised outside its try
\*              blocks or inside one of its except handlers)
scrape_detail_page(w, u, r, ok) ==
    CASE r = "ok" ->
           [w |-> mark_processed(w, u, ok), ret |-> "True", bad |-> FALSE]
      [] r = "noupload" -> [w |-> w, ret |-> "True", bad |-> FALSE]
      [] r = "exists" ->
           [w |-> mark_processed(w, u, ok), ret |-> "True", bad |-> TRUE]
      [] r = "fail" -> [w |-> w, ret |-> "False", bad |-> FALSE]
      [] OTHER -> [w |-> w, ret |-> "raise", bad |-> FALSE]

scrape_detail_page_outcomes == {"ok", "noupload", "exists", "fail", "raise"}

\* scrape_category, "Pre-check existence": the PDF of the listing title is in
\* the folder; it is uploaded and the URL is marked whatever the upload did
precheck_local_file(w, u, uploaded, ok) ==
    [w |-> mark_processed(w, u, ok), bad |-> ~uploaded]

\* DIFCDailyCrawler.download_entry (_download_direct_pdf / _download_page_pdf)
\*   "ok"       PDF saved, uploaded, URL marked, item recorded: True
\*   "noupload" PDF saved, S3Uploader.upload returned False: False
\*   "fail"     download or PDF error: False
\*   "raise"    navigation raised
download_entry(w, u, r, ok) ==
    CASE r = "ok" ->
           [w |-> StateManager_mark_processed(w, u, ok), ret |-> "True",
            bad |-> FALSE]
      [] r \in {"noupload", "fail"} ->
           [w |-> w, ret |-> "False", bad |-> FALSE]
      [] OTHER -> [w |-> w, ret |-> "raise", bad |-> FALSE]

download_entry_outcomes == {"ok", "noupload", "fail", "raise"}

\* law_only_uae._download_pdf: the S3 key, "local:<path>" when the upload
\* failed, None, or a "closed" PlaywrightError re-raised
_download_pdf(r) ==
    CASE r = "ok" -> "s3"
      [] r = "noupload" -> "local"
      [] r = "fail" -> "None"
      [] OTHER -> "raise"

_download_pdf_outcomes == {"ok", "noupload", "fail", "raise"}

-----------------------------------------------------------------------------
(* Locals of a scan and the observation of it                              *)

InitLoc ==
    [page |-> 1, total_pages |-> 1, entries |-> <<>>, idx |-> 1,
     is_incremental |-> FALSE, skipped_on_page |-> 0, new_on_page |-> 0,
     downloaded |-> 0, skipped |-> 0, failed |-> 0,
     items_since_restart |-> 0, consecutive |-> 0,
     dry_run |-> FALSE, weekly_mode |-> FALSE, new_items |-> <<>>]

InitHist ==
    [fetches    |-> [u \in URLs |-> 0],  \* Document Fetcher calls per URL
     pagesReq   |-> <<>>,                \* listing pages requested, in order
     flags      |-> <<>>,                \* per finished page: all items skipped
     startUrls  |-> {},                  \* processed URLs when the scan began
     startCat   |-> "unknown",           \* cursor status when the scan began
     listed     |-> 0,                   \* items enumerated
     fault      |-> FALSE,               \* a listing, state-file or browser fault
     unuploaded |-> FALSE,               \* a URL was marked without an upload
     unsuccessful |-> FALSE,             \* a fetcher call did not return success
     statusSaved |-> FALSE,              \* the write of in_progress worked
     stop       |-> "none"]              \* why the page loop ended

\* the previous run: it ended normally and without a fault (valid), the site
\* has not changed since (same), the URLs whose fetch did not succeed
NoPrev == [valid |-> FALSE, same |-> FALSE, failedSet |-> {}]

\* what a path holds: nothing, a cut-off JSON text, or the complete JSON text
\* of version ver of the state
Absent == [kind |-> "absent", ver |-> 0]
Truncated == [kind |-> "truncated", ver |-> 0]
Complete(n) == [kind |-> "complete", ver |-> n]

StateFiles == {"scraper_state.json", "crawler_state.json",
               "law/crawler_state.json"}

Writers == {"save_state", "_append_to_crawler_state", "sync_to_main_state",
            "CrawlerState.save"}

\* the canonical file each persist operation replaces
StateFileOf(wr) ==
    CASE wr = "save_state" -> "scraper_state.json"
      [] wr = "sync_to_main_state" -> "scraper_state.json"
      [] wr = "_append_to_crawler_state" -> "crawler_state.json"
      [] OTHER -> "law/crawler_state.json"

\* canon / tmp: the canonical path and "<path>.tmp"; old / new: what the
\* canonical path held when the running persist began and what it writes
FsIdle ==
    [files  |-> [f \in StateFiles |-> [canon |-> Absent, tmp |-> Absent]],
     step   |-> "idle",
     writer |-> "none",
     old    |-> Absent,
     new    |-> Absent]

\* no call has been made
NoCall == [op |-> "none"]

Init ==
    /\ variant \in {"J", "D", "L"}
    /\ site = <<>>
    /\ disk = EmptyDisk
    /\ mem = EmptyMem
    /\ pc = "idle"
    /\ loc = InitLoc
    /\ hist = InitHist
    /\ prev = NoPrev
    /\ fs = FsIdle
    /\ call = NoCall

-----------------------------------------------------------------------------
(* Environment                                                             *)

\* the site lists a new item in front of the older ones; u is a new URL or,
\* on the judgments listings and at most MaxDup times, a URL that is already
\* listed (a legislation row is keyed by its numeric id)
Publish(u) ==
    /\ pc = "idle"
    /\ Len(site) < (IF variant = "L" THEN MaxLegs ELSE MaxLen)
    /\ \/ u = Cardinality(Range(site)) + 1
       \/ /\ variant # "L"
          /\ u \in Range(site)
          /\ Len(site) - Cardinality(Range(site)) < MaxDup
    /\ site' = <<u>> \o site
    /\ prev' = [prev EXCEPT !.same = FALSE]
    /\ UNCHANGED <<variant, disk, mem, pc, loc, hist, fs, call>>

\* the process is killed: memory is lost, the files stay
Kill ==
    /\ pc # "idle"
    /\ pc' = "idle"
    /\ mem' = EmptyMem
    /\ loc' = InitLoc
    /\ hist' = InitHist
    /\ prev' = NoPrev
    /\ UNCHANGED <<variant, site, disk, fs, call>>

\* a process of crawler v starts and loads the ledger
StartRun(v, dry, weekly) ==
    /\ pc = "idle"
    /\ dry => v = "D"
    /\ weekly => v = "L"
    /\ variant' = v
    /\ mem' = CASE v = "J" -> load_state(disk)
                [] v = "D" -> StateManager_load(disk)
                [] OTHER -> CrawlerState_load(disk)
    /\ loc' = [InitLoc EXCEPT !.dry_run = dry, !.weekly_mode = weekly]
    /\ hist' = InitHist
    /\ pc' = "loaded"
    /\ UNCHANGED <<site, disk, prev, fs, call>>

-----------------------------------------------------------------------------
(* The item loop, shared shapes                                            *)

SetWorld(w) ==
    /\ mem' = w.mem
    /\ disk' = w.disk

Fetched(h, u, n, bad) ==
    [h EXCEPT !.fetches[u] = @ + n, !.unuploaded = @ \/ bad]

\* a call of the fetcher raised or returned a failure
Unsuccessful(h, b) == [h EXCEPT !.unsuccessful = @ \/ b]

\* the scan is left by an exception
Aborted(h) == [h EXCEPT !.stop = "abort", !.fault = TRUE]

NextItemPc(l) == IF l.idx >= Len(l.entries) THEN "pageEnd" ELSE "item"

Skipped_on_page_only(l) ==
    [l EXCEPT !.skipped_on_page = @ + 1, !.idx = @ + 1]

\* "already processed": total_skipped += 1; skipped_on_this_page += 1; continue
Skipped(l) ==
    [l EXCEPT !.skipped = @ + 1, !.skipped_on_page = @ + 1, !.idx = @ + 1]

Counted_late(l, ret) ==
    [l EXCEPT !.downloaded = IF ret = "True" THEN @ + 1 ELSE @,
              !.failed = IF ret # "True" THEN @ + 1 ELSE @,
              !.items_since_restart =
                  IF @ + 1 > RestartEvery THEN 0 ELSE @ + 1,
              !.idx = @ + 1]

\* the counters after a fetch that returned ret, and the restart counter
Counted(l, ret) ==
    [l EXCEPT !.downloaded = IF ret = "True" THEN @ + 1 ELSE @,
              !.failed = IF ret # "True" THEN @ + 1 ELSE @,
              !.items_since_restart =
                  IF @ + 1 >= RestartEvery THEN 0 ELSE @ + 1,
              !.idx = @ + 1]

-----------------------------------------------------------------------------
(* DIFCCourtsScraper.scrape_category                                       *)

\* is_incremental is read, the status becomes in_progress, the page count is
\* determined (1 when that fails)
BeginScanJ ==
    /\ pc = "loaded" /\ variant = "J"
    /\ \E ok, tp \in BOOLEAN :
         /\ get_total_pages(site) = 1 => tp
         /\ SetWorld(set_category_status(World, "in_progress", ok))
         /\ loc' = [loc EXCEPT !.is_incremental = is_category_complete(mem),
                               !.total_pages =
                                   IF tp THEN get_total_pages(site) ELSE 1,
                               !.page = 1]
         /\ hist' = [hist EXCEPT !.startUrls = mem.urls,
                                 !.startCat = mem.cat,
                                 !.statusSaved = ok,
                                 !.fault = ~ok \/ ~tp]
    /\ pc' = "list"
    /\ UNCHANGED <<variant, site, prev, fs, call>>

\* scrape_listing_page: the entries of the page; "empty": the page load or
\* the parsing fails and [] is returned; "raise": _ensure_valid_session
\* cannot start a browser and the scan is left
ListPageJ ==
    /\ pc = "list" /\ variant = "J"
    /\ \E lp \in {"entries", "empty", "raise"} :
         LET entries == IF lp = "entries" THEN PageOf(site, loc.page)
                        ELSE <<>>
         IN
         /\ PageOf(site, loc.page) = <<>> => lp # "empty"
         /\ IF lp = "raise"
            THEN /\ loc' = loc
                 /\ hist' = Aborted(hist)
                 /\ pc' = "done"
            ELSE /\ loc' = [loc EXCEPT !.entries = entries, !.idx = 1,
                                       !.skipped_on_page = 0,
                                       !.new_on_page = 0]
                 /\ hist' = [hist EXCEPT !.pagesReq = Append(@, loc.page),
                                         !.listed = @ + Len(entries),
                                         !.fault = @ \/ lp = "empty"]
                 /\ pc' = IF entries = <<>> THEN "pageEnd" ELSE "item"
    /\ UNCHANGED <<variant, site, disk, mem, prev, fs, call>>

\* one pass of the item loop of scrape_category
ItemJ ==
    /\ pc = "item" /\ variant = "J"
    /\ LET u == loc.entries[loc.idx] IN
       \/ /\ is_processed(mem, u)
          /\ loc' = Skipped(loc)
          /\ pc' = NextItemPc(loc)
          /\ UNCHANGED <<disk, mem, hist>>
       \/ \* os.path.exists(filepath): a PDF of this title is in the folder
          /\ ~is_processed(mem, u)
          /\ \E uploaded, ok \in BOOLEAN :
               LET a == precheck_local_file(World, u, uploaded, ok) IN
               /\ SetWorld(a.w)
               /\ hist' = [hist EXCEPT !.fault = @ \/ ~ok,
                                       !.unuploaded = @ \/ a.bad]
          /\ loc' = Skipped(loc)
          /\ pc' = NextItemPc(loc)
       \/ /\ ~is_processed(mem, u)
          /\ \E r1, r2 \in scrape_detail_page_outcomes, br, rs, ok \in BOOLEAN :
               LET a1 == scrape_detail_page(World, u, r1, ok)
                   retried == a1.ret = "raise" /\ br
                   a2 == IF retried THEN scrape_detail_page(a1.w, u, r2, ok)
                         ELSE a1
                   marked == is_processed(a2.w.mem, u)
                   restart == loc.items_since_restart + 1 >= RestartEvery
                   h == Unsuccessful(
                            Fetched(hist, u, IF retried THEN 2 ELSE 1, a2.bad),
                            a2.ret # "True" \/ a1.ret # "True")
               IN
               /\ ~retried => r2 = "fail"
               /\ r1 # "raise" => br
               /\ ~restart => rs
               /\ ~marked => ok
               /\ SetWorld(a2.w)
               /\ IF a1.ret = "raise" /\ ~br
                  THEN \* _init_browser raised in the except block
                       /\ loc' = loc
                       /\ hist' = Aborted(h)
                       /\ pc' = "done"
                  ELSE IF ~rs
                  THEN \* _init_browser raised in the periodic restart
                       /\ loc' = Counted(loc, a2.ret)
                       /\ hist' = Aborted(h)
                       /\ pc' = "done"
                  ELSE /\ loc' = Counted(loc, a2.ret)
                       /\ hist' = [h EXCEPT !.fault = @ \/ ~ok]
                       /\ pc' = NextItemPc(loc)
    /\ UNCHANGED <<variant, site, prev, fs, call>>

all_skipped_or_none(l) == l.skipped_on_page = Len(l.entries)

\* len(entries) > 0 and skipped_on_this_page == len(entries)
all_skipped(l) == Len(l.entries) > 0 /\ l.skipped_on_page = Len(l.entries)

incremental_stop_never(l) == FALSE

\* "If all items on this page were skipped AND we are in incremental mode":
\* break
incremental_stop(l) == all_skipped(l) /\ l.is_incremental

\* the stop check after a page, then the next page of range(1, total_pages+1)
EndPage(stop) ==
    /\ pc = "pageEnd"
    /\ hist' = [hist EXCEPT !.flags = Append(@, all_skipped(loc)),
                            !.stop = IF stop THEN "allseen"
                                     ELSE IF loc.page >= loc.total_pages
                                     THEN "exhausted" ELSE @]
    /\ IF stop \/ loc.page >= loc.total_pages
       THEN pc' = "finish" /\ loc' = loc
       ELSE pc' = "list" /\ loc' = [loc EXCEPT !.page = @ + 1]
    /\ UNCHANGED <<variant, site, disk, mem, prev, fs, call>>

EndPageJ == variant = "J" /\ EndPage(incremental_stop(loc))

\* set_category_status(category_name, 'completed')
FinishScanJ ==
    /\ pc = "finish" /\ variant = "J"
    /\ \E ok \in BOOLEAN :
         /\ SetWorld(set_category_status(World, "completed", ok))
         /\ hist' = [hist EXCEPT !.fault = @ \/ ~ok]
    /\ pc' = "done"
    /\ UNCHANGED <<variant, site, loc, prev, fs, call>>

-----------------------------------------------------------------------------
(* DIFCDailyCrawler.crawl_category and run                                 *)

\* the status becomes in_progress (in memory), the category page is opened
\* (nav = FALSE: page.goto raises and the scan is left), the page count is
\* read (1 when get_total_pages fails)
BeginScanD ==
    /\ pc = "loaded" /\ variant = "D"
    /\ \E nav, tp \in BOOLEAN :
         LET h == [hist EXCEPT !.startUrls = mem.urls,
                               !.startCat = mem.cat,
                               !.fault = ~tp]
         IN
         /\ (get_total_pages(site) = 1 \/ ~nav) => tp
         /\ SetWorld(StateManager_set_category_status(World, "in_progress"))
         /\ IF nav
            THEN /\ loc' = [loc EXCEPT !.total_pages =
                                IF tp THEN get_total_pages(site) ELSE 1,
                                       !.page = 1]
                 /\ hist' = h
                 /\ pc' = "list"
            ELSE /\ loc' = loc
                 /\ hist' = Aborted(h)
                 /\ pc' = "done"
    /\ UNCHANGED <<variant, site, prev, fs, call>>

\* scrape_listing_page: the entries of the page; "empty": the page loads but
\* no item is found on it and [] is returned; "raise": page.goto raises and
\* the scan is left
ListPageD ==
    /\ pc = "list" /\ variant = "D"
    /\ \E lp \in {"entries", "empty", "raise"} :
         LET entries == IF lp = "entries" THEN PageOf(site, loc.page)
                        ELSE <<>>
         IN
         /\ PageOf(site, loc.page) = <<>> => lp # "empty"
         /\ IF lp = "raise"
            THEN /\ loc' = loc
                 /\ hist' = Aborted([hist EXCEPT
                                       !.pagesReq = Append(@, loc.page)])
                 /\ pc' = "done"
            ELSE /\ loc' = [loc EXCEPT !.entries = entries, !.idx = 1,
                                       !.skipped_on_page = 0,
                                       !.new_on_page = 0]
                 /\ hist' = [hist EXCEPT !.pagesReq = Append(@, loc.page),
                                         !.listed = @ + Len(entries),
                                         !.fault = @ \/ lp = "empty"]
                 /\ pc' = IF entries = <<>> THEN "pageEnd" ELSE "item"
    /\ UNCHANGED <<variant, site, disk, mem, prev, fs, call>>

dry_run_item_unreported(l, u) ==
    [l EXCEPT !.new_on_page = @ + 1, !.idx = @ + 1]

\* crawl_category, "if self.dry_run": the item is logged, recorded with
\* _record_new_item(entry, name, "DRY_RUN") and counted as downloaded
dry_run_item(l, u) ==
    [l EXCEPT !.new_on_page = @ + 1,
              !.new_items = Append(@, u),
              !.downloaded = @ + 1,
              !.idx = @ + 1]

\* one pass of the item loop of crawl_category
ItemD ==
    /\ pc = "item" /\ variant = "D"
    /\ LET u == loc.entries[loc.idx] IN
       \/ /\ is_processed(mem, u)
          /\ loc' = Skipped(loc)
          /\ pc' = NextItemPc(loc)
          /\ UNCHANGED <<disk, mem, hist>>
       \/ /\ ~is_processed(mem, u)
          /\ loc.dry_run
          /\ loc' = dry_run_item(loc, u)
          /\ pc' = NextItemPc(loc)
          /\ UNCHANGED <<disk, mem, hist>>
       \/ /\ ~is_processed(mem, u)
          /\ ~loc.dry_run
          /\ \E r1, r2 \in download_entry_outcomes, br, rs, ok \in BOOLEAN :
               LET a1 == download_entry(World, u, r1, ok)
                   retried == a1.ret = "raise" /\ br
                   a2 == IF retried THEN download_entry(a1.w, u, r2, ok)
                         ELSE a1
                   marked == is_processed(a2.w.mem, u)
                   restart == loc.items_since_restart + 1 >= RestartEvery
                   h == Unsuccessful(
                            Fetched(hist, u, IF retried THEN 2 ELSE 1, a2.bad),
                            a2.ret # "True" \/ a1.ret # "True")
                   l == [Counted(loc, a2.ret) EXCEPT
                            !.new_on_page = @ + 1,
                            !.new_items = IF a2.ret = "True"
                                          THEN Append(@, u) ELSE @]
               IN
               /\ ~retried => r2 = "fail"
               /\ r1 # "raise" => br
               /\ ~restart => rs
               /\ ~marked => ok
               /\ SetWorld(a2.w)
               /\ loc' = l
               /\ IF ~rs
                  THEN \* _start_browser raised in the periodic restart
                       /\ hist' = Aborted(h)
                       /\ pc' = "done"
                  ELSE /\ hist' = [h EXCEPT !.fault = @ \/ ~ok
                                              \/ (a1.ret = "raise" /\ ~br)]
                       /\ pc' = NextItemPc(loc)
    /\ UNCHANGED <<variant, site, prev, fs, call>>

\* "if all items on page already processed ...": break
crawl_stop(l) ==
    l.entries # <<>> /\ l.skipped_on_page = Len(l.entries) /\ l.new_on_page = 0

EndPageD == variant = "D" /\ EndPage(crawl_stop(loc))

\* self.state.set_category_status(name, "completed")
FinishScanD ==
    /\ pc = "finish" /\ variant = "D"
    /\ SetWorld(StateManager_set_category_status(World, "completed"))
    /\ pc' = "done"
    /\ UNCHANGED <<variant, site, loc, hist, prev, fs, call>>

-----------------------------------------------------------------------------
(* End of a run                                                            *)

FailedSet == {u \in URLs : hist.fetches[u] > 0 /\ ~is_processed(mem, u)}

RunObserved(synced) ==
    IF hist.stop \in {"allseen", "exhausted"} /\ ~hist.fault
       /\ ~loc.dry_run /\ synced
    THEN [valid |-> TRUE, same |-> TRUE, failedSet |-> FailedSet]
    ELSE NoPrev

\* DIFCCourtsScraper.run after the scan: the browser is closed
EndRunJ ==
    /\ pc = "done" /\ variant = "J"
    /\ pc' = "idle"
    /\ mem' = EmptyMem
    /\ loc' = InitLoc
    /\ hist' = InitHist
    /\ prev' = RunObserved(TRUE)
    /\ UNCHANGED <<variant, site, disk, fs, call>>

\* DIFCDailyCrawler.run after the scan: sync_to_main_state unless dry-run,
\* the summary, the notification
EndRunD ==
    /\ pc = "done" /\ variant = "D"
    /\ \E ok \in BOOLEAN :
         /\ loc.dry_run => ok
         /\ disk' = IF loc.dry_run THEN disk ELSE sync_to_main_state(disk, ok)
         /\ prev' = RunObserved(ok)
    /\ pc' = "idle"
    /\ mem' = EmptyMem
    /\ loc' = InitLoc
    /\ hist' = InitHist
    /\ UNCHANGED <<variant, site, fs, call>>

-----------------------------------------------------------------------------
(* law_only_uae.scrape_legislations (weekly_mode from law_weekly_crawler)  *)

\* both callers pass resume=True
resume == TRUE

WeeklyStopPages == 2

\* initial navigation; nav = FALSE: three timeouts or a Cloudflare block,
\* the function returns 1 before the pagination loop
BeginScanL ==
    /\ pc = "loaded" /\ variant = "L"
    /\ \E nav \in BOOLEAN :
         /\ hist' = [hist EXCEPT !.startUrls = mem.urls,
                                 !.stop = IF nav THEN @ ELSE "unreachable",
                                 !.fault = ~nav]
         /\ pc' = IF nav THEN "list" ELSE "done"
    /\ loc' = [loc EXCEPT !.page = 1]
    /\ UNCHANGED <<variant, site, disk, mem, prev, fs, call>>

\* top of the pagination loop: _wait_for_table, the Cloudflare check
\* (blocked: set_last_page and return 1), _parse_rows (no rows: break)
ListPageL ==
    /\ pc = "list" /\ variant = "L"
    /\ \E blocked, rows, ok \in BOOLEAN :
         LET entries == IF rows THEN PageOf(site, loc.page) ELSE <<>> IN
         /\ PageOf(site, loc.page) = <<>> => rows
         /\ blocked => rows
         /\ ~blocked => ok
         /\ IF blocked
            THEN /\ SetWorld(set_last_page(World, loc.page, ok))
                 /\ loc' = loc
                 /\ hist' = [hist EXCEPT !.stop = "blocked", !.fault = TRUE]
                 /\ pc' = "done"
            ELSE /\ UNCHANGED <<disk, mem>>
                 /\ loc' = [loc EXCEPT !.entries = entries, !.idx = 1,
                                       !.skipped_on_page = 0]
                 /\ hist' = [hist EXCEPT !.pagesReq = Append(@, loc.page),
                                         !.listed = @ + Len(entries),
                                         !.fault = @ \/ ~rows,
                                         !.stop = IF entries = <<>>
                                                  THEN "empty" ELSE @]
                 /\ pc' = IF entries = <<>> THEN "done" ELSE "item"
    /\ UNCHANGED <<variant, site, prev, fs, call>>

\* one pass of the row loop
ItemL ==
    /\ pc = "item" /\ variant = "L"
    /\ LET u == loc.entries[loc.idx] IN
       \/ /\ resume /\ is_processed(mem, u)
          /\ loc' = Skipped(loc)
          /\ pc' = NextItemPc(loc)
          /\ UNCHANGED <<disk, mem, hist>>
       \/ /\ ~(resume /\ is_processed(mem, u))
          /\ \E r \in _download_pdf_outcomes, ok \in BOOLEAN :
               LET en_result == _download_pdf(r)
                   h == Unsuccessful(
                            Fetched(hist, u, 1, en_result = "local"),
                            en_result \in {"None", "raise"})
               IN
               IF en_result = "raise"
               THEN \* the "closed" error leaves scrape_legislations
                    /\ ok
                    /\ UNCHANGED <<disk, mem, loc>>
                    /\ hist' = Aborted(h)
                    /\ pc' = "done"
               ELSE /\ SetWorld(IF en_result # "None"
                                THEN mark_downloaded(World, u, ok)
                                ELSE mark_failed(World, u, ok))
                    /\ loc' = [loc EXCEPT
                                 !.downloaded = IF en_result # "None"
                                                THEN @ + 1 ELSE @,
                                 !.failed = IF en_result = "None"
                                            THEN @ + 1 ELSE @,
                                 !.idx = @ + 1]
                    /\ hist' = [h EXCEPT !.fault = @ \/ ~ok]
                    /\ pc' = NextItemPc(loc)
    /\ UNCHANGED <<variant, site, prev, fs, call>>

weekly_consecutive_noreset(l) ==
    IF l.weekly_mode /\ l.skipped_on_page = Len(l.entries)
    THEN l.consecutive + 1 ELSE l.consecutive

\* consecutive_all_skipped_pages after the weekly check of this page
weekly_consecutive(l) ==
    IF l.weekly_mode
    THEN IF l.skipped_on_page = Len(l.entries) THEN l.consecutive + 1 ELSE 0
    ELSE l.consecutive

\* "[Weekly] Stopping - caught up with new legislation."
weekly_stop(l) ==
    /\ l.weekly_mode
    /\ l.skipped_on_page = Len(l.entries)
    /\ weekly_consecutive(l) >= WeeklyStopPages

\* after the rows of a page: set_last_page, the weekly check, then the
\* next-page button (nb: it is there and works, it is there and both the
\* click and the fallback navigation fail, or it is not found)
EndPageL ==
    /\ pc = "pageEnd" /\ variant = "L"
    /\ \E nb \in {"next", "navfail", "nobutton"}, ok \in BOOLEAN :
         LET hasNext == loc.page < get_total_pages(site)
             stop == weekly_stop(loc)
         IN
         /\ (stop \/ ~hasNext) => nb = "nobutton"
         /\ SetWorld(set_last_page(World, loc.page, ok))
         /\ loc' = [loc EXCEPT !.consecutive = weekly_consecutive(loc),
                               !.page = IF ~stop /\ nb = "next"
                                        THEN @ + 1 ELSE @]
         /\ hist' = [hist EXCEPT
                       !.flags = Append(@, all_skipped(loc)),
                       !.fault = @ \/ ~ok \/ (~stop /\ hasNext /\ nb # "next"),
                       !.stop = IF stop THEN "weekly"
                                ELSE IF nb = "next" THEN @
                                ELSE IF nb = "navfail" THEN "navfail"
                                ELSE "exhausted"]
         /\ pc' = IF ~stop /\ nb = "next" THEN "list" ELSE "done"
    /\ UNCHANGED <<variant, site, prev, fs, call>>

\* browser.close(), the final summary, return 0 (or the return 1 / the
\* exception that ended the scan)
EndRunL ==
    /\ pc = "done" /\ variant = "L"
    /\ pc' = "idle"
    /\ mem' = EmptyMem
    /\ loc' = InitLoc
    /\ hist' = InitHist
    /\ prev' = NoPrev
    /\ UNCHANGED <<variant, site, disk, fs, call>>

Env ==
    \/ \E u \in URLs : Publish(u)
    \/ Kill
    \/ \E dry, weekly \in BOOLEAN : StartRun(variant, dry, weekly)

NextJ ==
    \/ Env
    \/ BeginScanJ \/ ListPageJ \/ ItemJ \/ EndPageJ \/ FinishScanJ \/ EndRunJ

NextD ==
    \/ Env
    \/ BeginScanD \/ ListPageD \/ ItemD \/ EndPageD \/ FinishScanD \/ EndRunD

NextL ==
    \/ Env
    \/ BeginScanL \/ ListPageL \/ ItemL \/ EndPageL \/ EndRunL

Next == NextJ \/ NextD \/ NextL

Spec == Init /\ [][Next]_vars

\* one crawler at a time
InitJ == Init /\ variant = "J"
InitD == Init /\ variant = "D"
InitL == Init /\ variant = "L"

SpecJ == InitJ /\ [][NextJ]_vars
SpecD == InitD /\ [][NextD]_vars
SpecL == InitL /\ [][NextL]_vars

-----------------------------------------------------------------------------
(* A persist operation, step by step on the file system.  All four writers *)
(* dump the new JSON text to "<path>.tmp" and then os.replace it onto the  *)
(* canonical path.                                                         *)

persist_target_canon(wr) == "canon"

\* the path the writer opens with open(..., "w")
persist_target(wr) == "tmp"

\* the writer reads what it needs, then open(tmp, "w") truncates the target
PersistOpen(wr) ==
    LET f == StateFileOf(wr)
        cur == fs.files[f].canon
    IN
    /\ fs.step = "idle"
    /\ cur.ver < MaxWrites
    /\ wr = "sync_to_main_state" =>
           fs.files["crawler_state.json"].canon.kind = "complete"
    /\ fs' = [fs EXCEPT !.files[f][persist_target(wr)] = Truncated,
                        !.step = "open",
                        !.writer = wr,
                        !.old = cur,
                        !.new = Complete(cur.ver + 1)]
    /\ UNCHANGED <<variant, site, disk, mem, pc, loc, hist, prev, call>>

\* json.dump finishes and the with block closes the file
PersistDump ==
    /\ fs.step = "open"
    /\ fs' = [fs EXCEPT
                !.files[StateFileOf(fs.writer)][persist_target(fs.writer)] =
                    fs.new,
                !.step = "closed"]
    /\ UNCHANGED <<variant, site, disk, mem, pc, loc, hist, prev, call>>

\* json.dump raises part way: the except branch reports it
PersistDumpFails ==
    /\ fs.step = "open"
    /\ fs' = [fs EXCEPT !.step = "idle"]
    /\ UNCHANGED <<variant, site, disk, mem, pc, loc, hist, prev, call>>

\* os.replace(tmp, path) (os.rename when the path does not exist yet); it
\* raises when there is no tmp file or the replace is refused
PersistReplace ==
    /\ fs.step = "closed"
    /\ \E done \in BOOLEAN :
         LET f == StateFileOf(fs.writer) IN
         /\ fs.files[f].tmp.kind = "absent" => ~done
         /\ fs' = [fs EXCEPT
                     !.files[f] = IF done
                                  THEN [canon |-> @.tmp, tmp |-> Absent]
                                  ELSE @,
                     !.step = "idle"]
    /\ UNCHANGED <<variant, site, disk, mem, pc, loc, hist, prev, call>>

\* the process is killed between two steps of the persist
PersistKilled ==
    /\ fs.step # "idle"
    /\ fs' = [fs EXCEPT !.step = "idle"]
    /\ UNCHANGED <<variant, site, disk, mem, pc, loc, hist, prev, call>>

NextFile ==
    \/ \E wr \in Writers : PersistOpen(wr)
    \/ PersistDump
    \/ PersistDumpFails
    \/ PersistReplace
    \/ PersistKilled

SpecFile == Init /\ [][NextFile]_vars

-----------------------------------------------------------------------------
(* The three ledger classes driven on their own: a process constructs the  *)
(* ledger (which loads the state files), calls its methods in any order    *)
(* and ends; the next process may be another crawler on the same files.    *)

LedgerURLs == 1..MaxKeys

Crawlers == {"J", "D", "L"}

\* the ledger the constructor of crawler v builds from the files
ledger_of(v, d) ==
    CASE v = "J" -> load_state(d)
      [] v = "D" -> StateManager_load(d)
      [] OTHER -> CrawlerState_load(d)

\* acked[v]: the URLs whose mark call of crawler v returned with the file
\* written; status[v]: the last status a set_category_status call of v was
\* given; fault: a state file write has failed; last: the last call
InitCall ==
    [op     |-> "ledger",
     acked  |-> [v \in Crawlers |-> {}],
     status |-> [v \in Crawlers |-> "none"],
     fault  |-> FALSE,
     last   |-> [name |-> "none", u |-> 0, ok |-> TRUE]]

InitLedger ==
    /\ variant \in Crawlers
    /\ site = <<>>
    /\ disk = EmptyDisk
    /\ mem = EmptyMem
    /\ pc = "idle"
    /\ loc = InitLoc
    /\ hist = InitHist
    /\ prev = NoPrev
    /\ fs = FsIdle
    /\ call = InitCall

\* ScraperTracker() / StateManager() / CrawlerState(); the two judgment
\* crawlers share their files, the legislation crawler has its own
LedgerOpen(v) ==
    /\ pc = "idle"
    /\ (v = "L") = (variant = "L")
    /\ variant' = v
    /\ mem' = ledger_of(v, disk)
    /\ pc' = "loaded"
    /\ call' = [call EXCEPT !.last = [name |-> "open", u |-> 0, ok |-> TRUE]]
    /\ UNCHANGED <<site, disk, loc, hist, prev, fs>>

\* the process ends or is killed
LedgerClose ==
    /\ pc = "loaded"
    /\ pc' = "idle"
    /\ mem' = EmptyMem
    /\ call' = [call EXCEPT !.last = [name |-> "close", u |-> 0, ok |-> TRUE]]
    /\ UNCHANGED <<variant, site, disk, loc, hist, prev, fs>>

\* mark_processed(url) / mark_downloaded(leg_id); ok: the file write works
LedgerMark(u, ok) ==
    /\ pc = "loaded"
    /\ SetWorld(CASE variant = "J" -> mark_processed(World, u, ok)
                  [] variant = "D" -> StateManager_mark_processed(World, u, ok)
                  [] OTHER -> mark_downloaded(World, u, ok))
    /\ call' = [call EXCEPT
                  !.acked[variant] = IF ok THEN @ \cup {u} ELSE @,
                  !.fault = @ \/ ~ok,
                  !.last = [name |-> "mark", u |-> u, ok |-> ok]]
    /\ UNCHANGED <<variant, site, pc, loc, hist, prev, fs>>

\* CrawlerState.mark_failed(leg_id, ...)
LedgerMarkFailed(u, ok) ==
    /\ pc = "loaded" /\ variant = "L"
    /\ SetWorld(mark_failed(World, u, ok))
    /\ call' = [call EXCEPT
                  !.fault = @ \/ ~ok,
                  !.last = [name |-> "mark_failed", u |-> u, ok |-> ok]]
    /\ UNCHANGED <<variant, site, pc, loc, hist, prev, fs>>

\* set_category_status(name, status) of ScraperTracker and of StateManager
\* (which writes no file)
LedgerSetStatus(st, ok) ==
    /\ pc = "loaded" /\ variant \in {"J", "D"}
    /\ variant = "D" => ok
    /\ SetWorld(IF variant = "J"
                THEN set_category_status(World, st, ok)
                ELSE StateManager_set_category_status(World, st))
    /\ call' = [call EXCEPT
                  !.status[variant] = st,
                  !.fault = @ \/ ~ok,
                  !.last = [name |-> "status", u |-> 0, ok |-> ok]]
    /\ UNCHANGED <<variant, site, pc, loc, hist, prev, fs>>

\* StateManager.sync_to_main_state()
LedgerSync(ok) ==
    /\ pc = "loaded" /\ variant = "D"
    /\ disk' = sync_to_main_state(disk, ok)
    /\ call' = [call EXCEPT
                  !.fault = @ \/ ~ok,
                  !.last = [name |-> "sync", u |-> 0, ok |-> ok]]
    /\ UNCHANGED <<variant, site, mem, pc, loc, hist, prev, fs>>

NextLedger ==
    \/ \E v \in Crawlers : LedgerOpen(v)
    \/ LedgerClose
    \/ \E u \in LedgerURLs, ok \in BOOLEAN : LedgerMark(u, ok)
    \/ \E u \in LedgerURLs, ok \in BOOLEAN : LedgerMarkFailed(u, ok)
    \/ \E st \in {"in_progress", "completed"}, ok \in BOOLEAN :
          LedgerSetStatus(st, ok)
    \/ \E ok \in BOOLEAN : LedgerSync(ok)

SpecLedger == InitLedger /\ [][NextLedger]_vars

-----------------------------------------------------------------------------
(* The category loop of DIFCCourtsScraper.run and DIFCDailyCrawler.run:    *)
(* the collections discovered on the site are scanned in order; a scan     *)
(* returns or raises.                                                      *)

InitRun == Init /\ variant \in {"J", "D"}

\* get_category_links() / get_categories() found n collections; none: return
RunStart(n) ==
    /\ pc = "idle"
    /\ pc' = "run"
    /\ call' = [op |-> "run", n |-> n, k |-> 1, scanned |-> {},
                raised |-> {}, ended |-> n = 0]
    /\ UNCHANGED <<variant, site, disk, mem, loc, hist, prev, fs>>

\* scrape_category(category) / crawl_category(cat) for collection k of the
\* for loop; raises: the scan is left by an exception, which the except
\* clause around the whole loop (J) or around this call (D) catches
RunScan(raises) ==
    /\ pc = "run" /\ ~call.ended /\ call.k <= call.n
    /\ call' = [call EXCEPT
                  !.scanned = @ \cup {call.k},
                  !.raised = IF raises THEN @ \cup {call.k} ELSE @,
                  !.k = IF raises /\ variant = "J" THEN @ ELSE @ + 1,
                  !.ended = raises /\ variant = "J"]
    /\ UNCHANGED <<variant, site, disk, mem, pc, loc, hist, prev, fs>>

\* the for loop is exhausted
RunLoopEnd ==
    /\ pc = "run" /\ ~call.ended /\ call.k > call.n
    /\ call' = [call EXCEPT !.ended = TRUE]
    /\ UNCHANGED <<variant, site, disk, mem, pc, loc, hist, prev, fs>>

\* finally: the browser is closed, the process ends; the next run may be
\* the other crawler
RunExit(v) ==
    /\ pc = "run" /\ call.ended
    /\ pc' = "idle"
    /\ variant' = v
    /\ call' = NoCall
    /\ UNCHANGED <<site, disk, mem, loc, hist, prev, fs>>

NextRun ==
    \/ \E n \in 0..MaxCats : RunStart(n)
    \/ \E raises \in BOOLEAN : RunScan(raises)
    \/ RunLoopEnd
    \/ \E v \in {"J", "D"} : RunExit(v)

SpecRun == InitRun /\ [][NextRun]_vars

-----------------------------------------------------------------------------
(* is_processed of ScraperTracker and of StateManager on URL strings.  A   *)
(* string is a sequence of characters; the entries of scraper_state.json   *)
(* carry a status, those of crawler_state.json are always "success".       *)

Chars == {" ", "a"}

Strs == UNION {[1..n -> Chars] : n \in 0..MaxStr}

\* str.strip(): leading and trailing whitespace removed
RECURSIVE lstrip(_)
lstrip(s) == IF s # <<>> /\ Head(s) = " " THEN lstrip(Tail(s)) ELSE s

RECURSIVE rstrip(_)
rstrip(s) ==
    IF s # <<>> /\ s[Len(s)] = " " THEN rstrip(SubSeq(s, 1, Len(s) - 1))
    ELSE s

strip(s) == rstrip(lstrip(s))

\* the keys mark_processed can store
Keys == {strip(s) : s \in Strs}

\* ScraperTracker.is_processed on the loaded processed_urls
ScraperTracker_is_processed(processed_urls, url) ==
    IF url = <<>> THEN FALSE
    ELSE processed_urls[strip(url)] = "success"

\* StateManager._load: the keys of the entries of both files
StateManager_processed_urls(main, crawler) ==
    {k \in Keys : main[k] # "absent"} \cup crawler

\* StateManager.is_processed
StateManager_is_processed(processed_urls, url) ==
    strip(url) \in processed_urls

\* no is_processed call has been made
NotAsked == [cls |-> "none", url |-> <<>>, ret |-> FALSE]

InitApi ==
    /\ variant \in {"J", "D"}
    /\ site = <<>>
    /\ disk = EmptyDisk
    /\ mem = EmptyMem
    /\ pc = "idle"
    /\ loc = InitLoc
    /\ hist = InitHist
    /\ prev = NoPrev
    /\ fs = FsIdle
    /\ call = [op |-> "api",
               main |-> [k \in Keys |-> "absent"],
               crawler |-> {},
               asked |-> NotAsked]

\* ScraperTracker(): mark_processed(url, status) and its save_state
ApiMarkJ(url, status) ==
    /\ call' = [call EXCEPT
                  !.main = IF url = <<>> THEN @
                           ELSE [@ EXCEPT ![strip(url)] = status],
                  !.asked = NotAsked]
    /\ variant' = "J"
    /\ UNCHANGED <<site, disk, mem, pc, loc, hist, prev, fs>>

\* StateManager(): mark_processed(url) and its _append_to_crawler_state
ApiMarkD(url) ==
    /\ call' = [call EXCEPT !.crawler = @ \cup {strip(url)},
                            !.asked = NotAsked]
    /\ variant' = "D"
    /\ UNCHANGED <<site, disk, mem, pc, loc, hist, prev, fs>>

\* a process constructs the ledger of class v from the files and calls
\* is_processed(url)
ApiAsk(v, url) ==
    /\ call' = [call EXCEPT !.asked =
           [cls |-> v, url |-> url,
            ret |-> IF v = "J"
                    THEN ScraperTracker_is_processed(call.main, url)
                    ELSE StateManager_is_processed(
                             StateManager_processed_urls(call.main,
                                                         call.crawler),
                             url)]]
    /\ variant' = v
    /\ UNCHANGED <<site, disk, mem, pc, loc, hist, prev, fs>>

NextApi ==
    \/ \E url \in Strs, status \in {"success", "failed"} :
          ApiMarkJ(url, status)
    \/ \E url \in Strs : ApiMarkD(url)
    \/ \E v \in {"J", "D"}, url \in Strs : ApiAsk(v, url)

SpecApi == InitApi /\ [][NextApi]_vars

-----------------------------------------------------------------------------
(* The entries of the two judgment state files with their content: status, *)
(* metadata and timestamp.  scraper_state.json is written by               *)
(* ScraperTracker.save_state and by sync_to_main_state, crawler_state.json *)
(* by StateManager._append_to_crawler_state.  now is the clock reading of  *)
(* datetime.now().                                                         *)

Metadata == {"None", "m1", "m2"}

NoEntry == [status |-> "absent", metadata |-> "{}", timestamp |-> 0]

\* metadata or {}
stored_metadata(metadata) == IF metadata = "None" THEN "{}" ELSE metadata

entry_without_metadata(status, metadata, now) ==
    [status |-> status, metadata |-> "{}", timestamp |-> now]

\* {'timestamp': datetime.now().isoformat(), 'status': status,
\*  'metadata': metadata or {}}
entry(status, metadata, now) ==
    [status |-> status, metadata |-> stored_metadata(metadata),
     timestamp |-> now]

\* the keys of a processed_urls object
urls_of(processed_urls) ==
    {u \in LedgerURLs : processed_urls[u].status # "absent"}

merge_overwriting(main, crawler) ==
    [u \in LedgerURLs |->
        IF crawler[u].status # "absent" THEN crawler[u] ELSE main[u]]

\* sync_to_main_state, "# Merge": for url, meta in crawler processed_urls:
\* if url not in main processed_urls: main[url] = meta
merge(main, crawler) ==
    [u \in LedgerURLs |->
        IF main[u].status = "absent" THEN crawler[u] ELSE main[u]]

\* the last call; again: it repeats the call before it
NoEntryCall == [name |-> "none", cls |-> "none", url |-> 0,
                metadata |-> "None", status |-> "none", ok |-> TRUE,
                again |-> FALSE]

repeats(c, cls, url, metadata, status) ==
    /\ c.name = "mark_processed" /\ c.cls = cls /\ c.url = url
    /\ c.metadata = metadata /\ c.status = status

InitEntries ==
    /\ variant \in {"J", "D"}
    /\ site = <<>>
    /\ disk = EmptyDisk
    /\ mem = EmptyMem
    /\ pc = "idle"
    /\ loc = InitLoc
    /\ hist = InitHist
    /\ prev = NoPrev
    /\ fs = FsIdle
    /\ call = [op |-> "entries",
               main |-> [u \in LedgerURLs |-> NoEntry],
               crawler |-> [u \in LedgerURLs |-> NoEntry],
               now |-> 1,
               last |-> NoEntryCall]

\* ScraperTracker.mark_processed(url, status, metadata) with its save_state
EntriesMarkJ(url, status, metadata) ==
    /\ call.now <= MaxClock
    /\ variant' = "J"
    /\ call' = [call EXCEPT
                  !.main[url] = entry(status, metadata, call.now),
                  !.now = @ + 1,
                  !.last = [name |-> "mark_processed", cls |-> "J",
                            url |-> url, metadata |-> metadata,
                            status |-> status, ok |-> TRUE,
                            again |-> repeats(call.last, "J", url,
                                              metadata, status)]]
    /\ UNCHANGED <<site, disk, mem, pc, loc, hist, prev, fs>>

\* StateManager.mark_processed(url, metadata) with _append_to_crawler_state
EntriesMarkD(url, metadata) ==
    /\ call.now <= MaxClock
    /\ variant' = "D"
    /\ call' = [call EXCEPT
                  !.crawler[url] = entry("success", metadata, call.now),
                  !.now = @ + 1,
                  !.last = [name |-> "mark_processed", cls |-> "D",
                            url |-> url, metadata |-> metadata,
                            status |-> "success", ok |-> TRUE,
                            again |-> repeats(call.last, "D", url,
                                              metadata, "success")]]
    /\ UNCHANGED <<site, disk, mem, pc, loc, hist, prev, fs>>

\* StateManager.sync_to_main_state; ok = FALSE: reading or writing a file
\* raises, which is logged
EntriesSync(ok) ==
    /\ call.now <= MaxClock
    /\ variant' = "D"
    /\ call' = [call EXCEPT
                  !.main = IF ok THEN merge(call.main, call.crawler) ELSE @,
                  !.now = @ + 1,
                  !.last = [name |-> "sync_to_main_state", cls |-> "D",
                            url |-> 0, metadata |-> "None",
                            status |-> "none", ok |-> ok,
                            again |-> FALSE]]
    /\ UNCHANGED <<site, disk, mem, pc, loc, hist, prev, fs>>

NextEntries ==
    \/ \E url \in LedgerURLs, status \in {"success", "failed"},
          metadata \in Metadata : EntriesMarkJ(url, status, metadata)
    \/ \E url \in LedgerURLs, metadata \in Metadata :
          EntriesMarkD(url, metadata)
    \/ \E ok \in BOOLEAN : EntriesSync(ok)

SpecEntries == InitEntries /\ [][NextEntries]_vars

-----------------------------------------------------------------------------
(* Loading a state file that the crawler did not write itself.  The file   *)
(* is absent, not readable as JSON ("invalid"), JSON that is not an object *)
(* ("nonobject"), or an object whose two collections (processed_urls and   *)
(* categories, or downloaded and failed) each are an object ("dict"), an   *)
(* array ("list", not holding the key a later call asks for) or null.  In  *)
(* memory a collection is "empty" (the value the constructor gave it) or   *)
(* has one of these shapes.  ScraperTracker reads scraper_state.json,      *)
(* CrawlerState its crawler_state.json, StateManager crawler_state.json    *)
(* with no scraper_state.json beside it.                                   *)

FieldShapes == {"dict", "list", "null"}

NoFile == [kind |-> "absent", f1 |-> "none", f2 |-> "none"]

ObjectFile(a, b) == [kind |-> "object", f1 |-> a, f2 |-> b]

FileContents ==
    {NoFile,
     [kind |-> "invalid", f1 |-> "none", f2 |-> "none"],
     [kind |-> "nonobject", f1 |-> "none", f2 |-> "none"]}
    \cup {ObjectFile(a, b) : a, b \in FieldShapes}

\* the collections as __init__ sets them
Fresh == [f1 |-> "empty", f2 |-> "empty"]

\* ScraperTracker.load_state: both values are taken from the object, then
\* len(self.processed_urls) is printed inside the try; any exception resets
\* both collections
ScraperTracker_load_state(f) ==
    IF f.kind # "object" \/ f.f1 = "null" THEN Fresh
    ELSE [f1 |-> f.f1, f2 |-> f.f2]

\* StateManager._load of one file: the keys of processed_urls are added,
\* then the categories; an exception ends the loading of the file and keeps
\* what was added
StateManager__load(f) ==
    IF f.kind = "object" /\ f.f1 = "dict"
    THEN [f1 |-> "dict", f2 |-> IF f.f2 = "dict" THEN "dict" ELSE "empty"]
    ELSE Fresh

\* CrawlerState._load: self.data.update(loaded), then the lengths are
\* printed inside the try; an exception is printed and self.data stays
CrawlerState__load(f) ==
    IF f.kind # "object" THEN Fresh ELSE [f1 |-> f.f1, f2 |-> f.f2]

construct(v, f) ==
    CASE v = "J" -> ScraperTracker_load_state(f)
      [] v = "D" -> StateManager__load(f)
      [] OTHER -> CrawlerState__load(f)

OpsOf(v) ==
    CASE v = "J" -> {"is_processed", "mark_processed",
                     "is_category_complete", "set_category_status"}
      [] v = "D" -> {"is_processed", "mark_processed", "set_category_status"}
      [] OTHER -> {"is_downloaded", "mark_downloaded", "mark_failed",
                   "set_last_page"}

dictlike(x) == x \in {"empty", "dict"}

\* the call raises: a subscript assignment, .get or .pop on a list or on
\* None, "in" or len() on None
raises(v, o, m) ==
    CASE v = "J" /\ o = "mark_processed" -> ~dictlike(m.f1)
      [] v = "J" /\ o \in {"is_category_complete", "set_category_status"} ->
             ~dictlike(m.f2)
      [] v = "L" /\ o = "is_downloaded" -> m.f1 = "null"
      [] v = "L" /\ o = "mark_downloaded" ->
             ~dictlike(m.f1) \/ ~dictlike(m.f2)
      [] v = "L" /\ o = "mark_failed" -> ~dictlike(m.f2) \/ m.f1 = "null"
      [] v = "L" /\ o = "set_last_page" -> m.f1 = "null" \/ m.f2 = "null"
      [] OTHER -> FALSE

\* the collection the call adds an entry to (0: none)
adds(o) ==
    CASE o \in {"mark_processed", "mark_downloaded"} -> 1
      [] o \in {"set_category_status", "mark_failed"} -> 2
      [] OTHER -> 0

after(m, o) ==
    [f1 |-> IF adds(o) = 1 /\ m.f1 = "empty" THEN "dict" ELSE m.f1,
     f2 |-> IF adds(o) = 2 /\ m.f2 = "empty" THEN "dict" ELSE m.f2]

written(x) == IF x = "empty" THEN "dict" ELSE x

\* the file after the call: save_state and CrawlerState.save dump the
\* collections in memory; _append_to_crawler_state re-reads the file, creates
\* it when absent, adds the entry when it holds a processed_urls object and
\* gives up otherwise; StateManager.set_category_status and the queries
\* write nothing
saved(v, o, m, f) ==
    IF o \in {"is_processed", "is_category_complete", "is_downloaded"}
    THEN f
    ELSE IF v = "D"
    THEN IF o = "mark_processed" /\ f.kind = "absent"
         THEN ObjectFile("dict", "dict")
         ELSE f
    ELSE ObjectFile(written(m.f1), written(m.f2))

NotLoaded ==
    [op |-> "load", file |-> NoFile, cls |-> "none", from |-> NoFile,
     loaded |-> Fresh, mem |-> Fresh, tried |-> "none", raised |-> FALSE]

InitLoad ==
    /\ variant \in Crawlers
    /\ site = <<>>
    /\ disk = EmptyDisk
    /\ mem = EmptyMem
    /\ pc = "idle"
    /\ loc = InitLoc
    /\ hist = InitHist
    /\ prev = NoPrev
    /\ fs = FsIdle
    /\ call = NotLoaded

\* between two processes the state file is removed, damaged or replaced
LoadFileChanged(f) ==
    /\ call.cls = "none"
    /\ call' = [call EXCEPT !.file = f]
    /\ UNCHANGED <<variant, site, disk, mem, pc, loc, hist, prev, fs>>

\* ScraperTracker() / StateManager() / CrawlerState() on the file
LoadConstruct(v) ==
    /\ call.cls = "none"
    /\ variant' = v
    /\ call' = [call EXCEPT !.cls = v, !.from = call.file,
                            !.loaded = construct(v, call.file),
                            !.mem = construct(v, call.file),
                            !.tried = "none", !.raised = FALSE]
    /\ UNCHANGED <<site, disk, mem, pc, loc, hist, prev, fs>>

\* one call of a ledger method; an exception ends the process
LoadCall(o) ==
    /\ call.cls # "none" /\ ~call.raised
    /\ o \in OpsOf(call.cls)
    /\ IF raises(call.cls, o, call.mem)
       THEN call' = [call EXCEPT !.tried = o, !.raised = TRUE]
       ELSE call' = [call EXCEPT
                       !.tried = o,
                       !.mem = after(call.mem, o),
                       !.file = saved(call.cls, o, after(call.mem, o),
                                      call.file)]
    /\ UNCHANGED <<variant, site, disk, mem, pc, loc, hist, prev, fs>>

\* the process ends
LoadExit ==
    /\ call.cls # "none"
    /\ call' = [NotLoaded EXCEPT !.file = call.file]
    /\ UNCHANGED <<variant, site, disk, mem, pc, loc, hist, prev, fs>>

NextLoad ==
    \/ \E f \in FileContents : LoadFileChanged(f)
    \/ \E v \in Crawlers : LoadConstruct(v)
    \/ \E o \in OpsOf(call.cls) : LoadCall(o)
    \/ LoadExit

SpecLoad == InitLoad /\ [][NextLoad]_vars

-----------------------------------------------------------------------------
(* The processes from main to exit: UAE_judgements.py (J),                 *)
(* UAE_judgements_crawler.py (D), law_only_uae.py and law_weekly_crawler.py *)
(* (L, weekly or not).  A collection scan is taken as one step that        *)
(* handles one item and returns or raises.                                 *)

\* the "users" value of a JSON body: a list of objects and of other values
UserLists ==
    {<<>>, <<"dict">>, <<"str">>, <<"dict", "dict">>, <<"dict", "str">>}

\* what get_users_from_api receives: status 200 with a body, or a request
\* error, another status or a body that is not JSON
ApiResponses == [status : {"200", "error"}, users : UserLists]

\* get_users_from_api: every failure is logged and gives the empty list
get_users_from_api(resp) == IF resp.status = "200" THEN resp.users ELSE <<>>

\* send_email_notification for one recipient: False without credentials,
\* user_data.get(...) before the try block, True after the SMTP dialogue, None
\* when anything inside the try block raised
send_email_notification(creds, user, smtp) ==
    CASE ~creds -> "False"
      [] user # "dict" -> "raise"
      [] smtp -> "True"
      [] OTHER -> "None"

\* broadcast_notifications: nothing without users, else one
\* send_email_notification per user, in order
broadcast_notifications(creds, users, smtp) ==
    IF \E i \in 1..Len(users) :
         send_email_notification(creds, users[i], smtp) = "raise"
    THEN "raise"
    ELSE "None"

NoStats == [downloaded |-> 0, skipped |-> 0, failed |-> 0]

\* phase: where the process is; n, k: the collections found and the one to
\* scan next; discovered: the discovery returned collections; fatal: it
\* raised or returned none; raised: a scan was left by an exception or by
\* return 1; item_failed: a fetch did not return success; marked: the URLs
\* this run has marked; write_failed: a state file write has failed; summary: the end-of-run summary with the counts was written;
\* handed: what the Notifier was given; code: the exit code (-1: running)
InitProcCall ==
    [op |-> "proc", phase |-> "discover", weekly |-> FALSE,
     dry_run |-> FALSE, email_to |-> FALSE,
     n |-> 0, k |-> 1, discovered |-> FALSE, fatal |-> FALSE,
     raised |-> FALSE, item_failed |-> FALSE,
     marked |-> {}, write_failed |-> FALSE,
     new_items |-> 0, stats |-> NoStats,
     summary |-> FALSE, handed |-> FALSE, notifier |-> "none",
     before |-> [mem |-> EmptyMem, disk |-> EmptyDisk],
     result |-> -1, code |-> -1]

InitProc == Init

\* the command line: --dry-run and --email-to of the daily crawler, the
\* weekly entry point of the legislation crawler; the ledger is constructed
ProcStart(v, dry, email_to, weekly) ==
    /\ pc = "idle"
    /\ dry => v = "D"
    /\ email_to => v \in {"D", "L"} /\ (v = "L" => weekly)
    /\ weekly => v = "L"
    /\ variant' = v
    /\ pc' = "proc"
    /\ mem' = ledger_of(v, disk)
    /\ call' = [InitProcCall EXCEPT !.dry_run = dry, !.email_to = email_to,
                                    !.weekly = weekly]
    /\ UNCHANGED <<site, disk, loc, hist, prev, fs>>

\* get_category_links / get_categories / the initial navigation:
\*   "found"  n collections (the legislation listing is one collection)
\*   "none"   no collection link (J: also a navigation error); L: three
\*            timeouts or a Cloudflare block, return 1
\*   "raise"  the browser cannot be started or the navigation raises
ProcDiscover(outcome, n) ==
    /\ pc = "proc" /\ call.phase = "discover"
    /\ variant = "L" => n = 1
    /\ call' =
         IF outcome = "found"
         THEN [call EXCEPT !.phase = "loop", !.n = n, !.discovered = TRUE]
         ELSE IF outcome = "none"
         THEN IF variant = "L"
              THEN [call EXCEPT !.phase = "main", !.fatal = TRUE, !.result = 1]
              ELSE [call EXCEPT !.phase = "exit", !.fatal = TRUE, !.code = 0]
         ELSE IF variant = "D"
              THEN [call EXCEPT !.phase = "tail", !.fatal = TRUE]
              ELSE [call EXCEPT !.phase = "exit", !.fatal = TRUE,
                                !.code = IF variant = "J" THEN 0 ELSE 1]
    /\ UNCHANGED <<variant, site, disk, mem, pc, loc, hist, prev, fs>>

\* the fetch of an item has left the world w; ok: its state file write worked
noted(c, w, ok) ==
    [c EXCEPT !.marked = @ \cup (w.mem.urls \ mem.urls),
              !.write_failed = @ \/ (w.mem # mem /\ ~ok)]

\* the counters and the new-items list after an item that was skipped, that
\* was listed in a dry run, or whose fetch returned ret
counted(c, skipped, ret) ==
    [c EXCEPT
       !.stats.skipped = IF skipped THEN @ + 1 ELSE @,
       !.stats.downloaded = IF ~skipped /\ ret = "True" THEN @ + 1 ELSE @,
       !.stats.failed = IF ~skipped /\ ret # "True" THEN @ + 1 ELSE @,
       !.item_failed = @ \/ (~skipped /\ ret # "True"),
       !.new_items = IF ~skipped /\ ret = "True" THEN @ + 1 ELSE @]

\* the scan of collection k is left: it returned, or it raised, which D's
\* loop catches, J's run takes as a critical error and L does not catch;
\* blocked: L's Cloudflare block in the pagination, return 1
left(c, how) ==
    CASE how = "returns" -> [c EXCEPT !.k = @ + 1]
      [] how = "blocked" ->
           [c EXCEPT !.raised = TRUE, !.phase = "main", !.result = 1]
      [] variant = "D" -> [c EXCEPT !.raised = TRUE, !.k = @ + 1]
      [] variant = "J" -> [c EXCEPT !.raised = TRUE, !.phase = "exit", !.code = 0]
      [] OTHER -> [c EXCEPT !.raised = TRUE, !.phase = "exit", !.code = 1]

\* scrape_category / crawl_category / the pagination loop on collection k
\* with one item u
ProcScan(u, r, ok, how) ==
    /\ pc = "proc" /\ call.phase = "loop" /\ call.k <= call.n
    /\ how = "blocked" => variant = "L"
    /\ IF is_processed(mem, u)
       THEN /\ call' = left(counted(call, TRUE, "True"), how)
            /\ UNCHANGED <<mem, disk>>
       ELSE CASE variant = "J" ->
                   /\ r \in scrape_detail_page_outcomes
                   /\ LET f == scrape_detail_page(World, u, r, ok)
                      IN /\ SetWorld(f.w)
                         /\ call' = left(counted(noted(call, f.w, ok), FALSE,
                                                 f.ret), how)
              [] variant = "D" /\ call.dry_run ->
                   /\ r = "ok" /\ ok
                   /\ call' = left(counted(call, FALSE, "True"), how)
                   /\ UNCHANGED <<mem, disk>>
              [] variant = "D" /\ ~call.dry_run ->
                   /\ r \in download_entry_outcomes
                   /\ LET f == download_entry(World, u, r, ok)
                      IN /\ SetWorld(f.w)
                         /\ call' = left(counted(noted(call, f.w, ok), FALSE,
                                                 f.ret), how)
              [] OTHER ->
                   /\ r \in _download_pdf_outcomes
                   /\ LET f == _download_pdf(r)
                      IN CASE f = "raise" ->
                                /\ call' = left(call, "raises")
                                /\ UNCHANGED <<mem, disk>>
                           [] f = "None" ->
                                /\ SetWorld(mark_failed(World, u, ok))
                                /\ call' = left(counted(
                                      noted(call, mark_failed(World, u, ok), ok),
                                      FALSE, "False"), how)
                           [] OTHER ->
                                /\ SetWorld(mark_downloaded(World, u, ok))
                                /\ call' = left(counted(
                                      noted(call, mark_downloaded(World, u, ok), ok),
                                      FALSE, "True"), how)
    /\ UNCHANGED <<variant, site, pc, loc, hist, prev, fs>>

\* the loop is exhausted.  J: "All scraping completed." after the counts of
\* the last collection; D: on to the finally clause; L: browser.close(), the
\* final summary, return 0
ProcLoopEnd ==
    /\ pc = "proc" /\ call.phase = "loop" /\ call.k > call.n
    /\ call' = CASE variant = "J" -> [call EXCEPT !.phase = "exit", !.code = 0,
                                              !.summary = TRUE]
                 [] variant = "D" -> [call EXCEPT !.phase = "tail"]
                 [] OTHER -> [call EXCEPT !.phase = "main", !.summary = TRUE,
                                          !.result = 0]
    /\ UNCHANGED <<variant, site, disk, mem, pc, loc, hist, prev, fs>>

\* DIFCDailyCrawler.run after the try statement: sync_to_main_state unless
\* dry-run, then the CRAWL COMPLETE summary
ProcTail(ok) ==
    /\ pc = "proc" /\ call.phase = "tail" /\ variant = "D"
    /\ call.dry_run => ok
    /\ disk' = IF call.dry_run THEN disk ELSE sync_to_main_state(disk, ok)
    /\ call' = [call EXCEPT !.phase = "notify", !.summary = TRUE,
                             !.write_failed = @ \/ ~ok]
    /\ UNCHANGED <<variant, site, mem, pc, loc, hist, prev, fs>>

\* DIFCDailyCrawler.run, "Send email if there are new items": one
\* send_email_notification to --email-to or broadcast_notifications; an
\* exception of the Notifier leaves run and main
ProcNotifyD(creds, resp, smtp) ==
    /\ pc = "proc" /\ call.phase = "notify" /\ variant = "D"
    /\ LET out == CASE call.new_items = 0 -> "none"
                    [] call.email_to ->
                         send_email_notification(creds, "dict", smtp)
                    [] OTHER ->
                         broadcast_notifications(creds,
                             get_users_from_api(resp), smtp)
       IN call' = [call EXCEPT
                     !.phase = "exit",
                     !.handed = call.new_items > 0,
                     !.notifier = out,
                     !.before = World,
                     !.code = IF out = "raise" THEN 1 ELSE 0]
    /\ UNCHANGED <<variant, site, disk, mem, pc, loc, hist, prev, fs>>

\* what scrape_legislations returned is an int
is_int(result) == result \in Int

\* main of law_only_uae.py returns what scrape_legislations returned; main of
\* law_weekly_crawler.py returns it when it is an int, and else takes
\* new_items, stats and exit_code from it and, with new items, mails
\* --email-to or (after a broadcast that sends nothing) NOTIFY_EMAIL
ProcMainL(creds, smtp) ==
    /\ pc = "proc" /\ call.phase = "main" /\ variant = "L"
    /\ IF ~call.weekly \/ is_int(call.result)
       THEN call' = [call EXCEPT !.phase = "exit", !.code = call.result]
       ELSE LET out == IF call.new_items = 0 THEN "none"
                       ELSE send_email_notification(creds, "dict", smtp)
            IN call' = [call EXCEPT
                          !.phase = "exit",
                          !.handed = call.new_items > 0,
                          !.notifier = out,
                          !.before = World,
                          !.code = 0]
    /\ UNCHANGED <<variant, site, disk, mem, pc, loc, hist, prev, fs>>

\* the process is gone; the state files stay
ProcExit ==
    /\ pc = "proc" /\ call.phase = "exit"
    /\ pc' = "idle"
    /\ mem' = EmptyMem
    /\ call' = NoCall
    /\ UNCHANGED <<variant, site, disk, loc, hist, prev, fs>>

ProcStep ==
    \/ \E outcome \in {"found", "none", "raise"}, n \in 1..MaxCats :
         ProcDiscover(outcome, n)
    \/ \E u \in LedgerURLs, r \in {"ok", "noupload", "exists", "fail", "raise"},
          ok \in BOOLEAN, how \in {"returns", "raises", "blocked"} :
         ProcScan(u, r, ok, how)
    \/ ProcLoopEnd
    \/ \E ok \in BOOLEAN : ProcTail(ok)
    \/ \E creds, smtp \in BOOLEAN, resp \in ApiResponses :
         ProcNotifyD(creds, resp, smtp)
    \/ \E creds, smtp \in BOOLEAN : ProcMainL(creds, smtp)
    \/ ProcExit

NextProc ==
    \/ \E v \in Crawlers, dry, email_to, weekly \in BOOLEAN :
         ProcStart(v, dry, email_to, weekly)
    \/ ProcStep

SpecProc == InitProc /\ [][NextProc]_vars

\* a started process is never held up: each step of it is taken eventually
SpecProcFair == SpecProc /\ WF_vars(ProcStep)

-----------------------------------------------------------------------------
(* The item loop of scrape_category and crawl_category on a collection     *)
(* long enough for the periodic browser restart: the listing pages are     *)
(* left out, an item is a known one, one whose PDF is already in the       *)
(* folder (J), one of a dry run (D), or one that goes through the fetcher. *)

\* the items of one collection
MaxItems == 82

\* fetched: the items of this scan that went through the fetch step;
\* recycles: the periodic restarts of this scan; last: the last item
InitRecycleCall ==
    [op |-> "items", n |-> 0, fetched |-> 0, recycles |-> 0, last |-> "none"]

InitRecycle == Init /\ variant \in {"J", "D"}

\* items_since_restart = 0 before the page loop of a collection
RecycleBegin(v, dry) ==
    /\ pc = "idle"
    /\ dry => v = "D"
    /\ variant' = v
    /\ pc' = "items"
    /\ loc' = [InitLoc EXCEPT !.dry_run = dry]
    /\ call' = InitRecycleCall
    /\ UNCHANGED <<site, disk, mem, hist, prev, fs>>

\* "already processed": continue
RecycleSkip ==
    /\ pc = "items" /\ call.n < MaxItems
    /\ loc' = Skipped(loc)
    /\ call' = [call EXCEPT !.n = @ + 1, !.last = "skip"]
    /\ UNCHANGED <<variant, site, disk, mem, pc, hist, prev, fs>>

\* scrape_category, "Pre-check existence": the local PDF is uploaded, the URL
\* marked, the item counted as skipped: continue
RecyclePrecheck ==
    /\ pc = "items" /\ call.n < MaxItems /\ variant = "J"
    /\ loc' = Skipped(loc)
    /\ call' = [call EXCEPT !.n = @ + 1, !.last = "precheck"]
    /\ UNCHANGED <<variant, site, disk, mem, pc, hist, prev, fs>>

\* crawl_category, "if self.dry_run": continue
RecycleDryRun ==
    /\ pc = "items" /\ call.n < MaxItems /\ variant = "D" /\ loc.dry_run
    /\ loc' = dry_run_item(loc, 1)
    /\ call' = [call EXCEPT !.n = @ + 1, !.last = "dry"]
    /\ UNCHANGED <<variant, site, disk, mem, pc, hist, prev, fs>>

\* the fetch of an item (with its retry) returned ret; then "Memory
\* management": the counter, and at RestartEvery the browser restart (rs =
\* FALSE: _init_browser / _start_browser raises and the scan is left)
RecycleFetch(ret, rs) ==
    /\ pc = "items" /\ call.n < MaxItems
    /\ variant = "D" => ~loc.dry_run
    /\ LET restart == loc.items_since_restart + 1 >= RestartEvery IN
       /\ ~restart => rs
       /\ loc' = Counted(loc, ret)
       /\ call' = [call EXCEPT !.n = @ + 1, !.last = "fetch",
                               !.fetched = @ + 1,
                               !.recycles = IF restart THEN @ + 1 ELSE @]
       /\ pc' = IF rs THEN "items" ELSE "left"
    /\ UNCHANGED <<variant, site, disk, mem, hist, prev, fs>>

\* the page loop is exhausted or was left; the next collection
RecycleEnd ==
    /\ pc \in {"items", "left"}
    /\ pc' = "idle"
    /\ loc' = InitLoc
    /\ call' = NoCall
    /\ UNCHANGED <<variant, site, disk, mem, hist, prev, fs>>

NextRecycle ==
    \/ \E v \in {"J", "D"}, dry \in BOOLEAN : RecycleBegin(v, dry)
    \/ RecycleSkip
    \/ RecyclePrecheck
    \/ RecycleDryRun
    \/ \E ret \in {"True", "False"}, rs \in BOOLEAN : RecycleFetch(ret, rs)
    \/ RecycleEnd

SpecRecycle == InitRecycle /\ [][NextRecycle]_vars

-----------------------------------------------------------------------------
(* Two threads in StateManager.mark_processed                              *)

Threads == {1, 2}

\* at: the position of the thread in mark_processed ("out": not in a call),
\* url: its argument, data: what it has read of crawler_state.json,
\* returned: its call has returned; tmp: crawler_state.json.tmp
InitThreadsCall ==
    [op |-> "threads",
     th |-> [t \in Threads |->
               [at |-> "out", url |-> 0, data |-> {}, returned |-> FALSE]],
     tmp |-> [exists |-> FALSE, urls |-> {}]]

InitThreads == Init /\ variant = "D"

\* StateManager(): the object both threads share
ThreadsBegin ==
    /\ pc = "idle"
    /\ pc' = "threads"
    /\ mem' = StateManager_load(disk)
    /\ call' = InitThreadsCall
    /\ UNCHANGED <<variant, site, disk, loc, hist, prev, fs>>

\* mark_processed(url): self.processed_urls.add(url)
ThreadCall(t, u) ==
    /\ pc = "threads" /\ call.th[t].at = "out" /\ ~call.th[t].returned
    /\ mem' = [mem EXCEPT !.urls = @ \cup {u}]
    /\ call' = [call EXCEPT !.th[t] = [@ EXCEPT !.at = "in", !.url = u]]
    /\ UNCHANGED <<variant, site, disk, pc, loc, hist, prev, fs>>

\* _append_to_crawler_state: json.load of the file if it exists, then
\* data["processed_urls"][url] = {...}
ThreadRead(t) ==
    /\ pc = "threads" /\ call.th[t].at = "in"
    /\ call' = [call EXCEPT !.th[t] =
                  [@ EXCEPT !.at = "read",
                            !.data = disk.crawler.urls \cup {call.th[t].url}]]
    /\ UNCHANGED <<variant, site, disk, mem, pc, loc, hist, prev, fs>>

\* _append_to_crawler_state: json.dump(data) into the .tmp file
ThreadDump(t) ==
    /\ pc = "threads" /\ call.th[t].at = "read"
    /\ call' = [call EXCEPT !.th[t].at = "dumped",
                            !.tmp = [exists |-> TRUE, urls |-> call.th[t].data]]
    /\ UNCHANGED <<variant, site, disk, mem, pc, loc, hist, prev, fs>>

\* _append_to_crawler_state: os.replace(tmp, CRAWLER_STATE_FILE); without
\* the .tmp file it raises, which is caught and logged; the call returns
ThreadReplace(t) ==
    /\ pc = "threads" /\ call.th[t].at = "dumped"
    /\ disk' = IF call.tmp.exists
               THEN [disk EXCEPT !.crawler.urls = call.tmp.urls]
               ELSE disk
    /\ call' = [call EXCEPT !.th[t] = [@ EXCEPT !.at = "out", !.returned = TRUE],
                            !.tmp = [exists |-> FALSE, urls |-> {}]]
    /\ UNCHANGED <<variant, site, mem, pc, loc, hist, prev, fs>>

\* both calls have returned; the process ends
ThreadsEnd ==
    /\ pc = "threads" /\ \A t \in Threads : call.th[t].returned
    /\ pc' = "idle"
    /\ mem' = EmptyMem
    /\ call' = NoCall
    /\ UNCHANGED <<variant, site, disk, loc, hist, prev, fs>>

NextThreads ==
    \/ ThreadsBegin
    \/ \E t \in Threads, u \in LedgerURLs : ThreadCall(t, u)
    \/ \E t \in Threads : ThreadRead(t)
    \/ \E t \in Threads : ThreadDump(t)
    \/ \E t \in Threads : ThreadReplace(t)
    \/ ThreadsEnd

SpecThreads == InitThreads /\ [][NextThreads]_vars

-----------------------------------------------------------------------------
(* Properties                                                              *)

\* the listing shows every URL once
ListedOnce == Cardinality(Range(site)) = Len(site)

\* every URL added to the ledger by this scan went through the fetcher (none
\* was taken from a PDF left in the download folder)
NoLocalFiles == \A u \in mem.urls \ hist.startUrls : hist.fetches[u] > 0

\* C1: in every scan of the three crawlers, a step taken while the ledger in
\* memory holds URL u never invokes the Document Fetcher for u: an item that
\* is reported as processed when it is reached is skipped without a fetch.
C1_ProcessedNeverFetched ==
    [][\A u \in URLs :
          u \in mem.urls => hist'.fetches[u] <= hist.fetches[u]]_vars

\* an item that was in the ledger when the scan began has been reached and
\* skipped, and no fetch was made for it
C1_Witness ==
    /\ pc \in {"item", "pageEnd"}
    /\ loc.skipped_on_page >= 1
    /\ \E i \in 1..Len(loc.entries) :
         /\ i < loc.idx \/ pc = "pageEnd"
         /\ loc.entries[i] \in hist.startUrls
         /\ hist.fetches[loc.entries[i]] = 0

\* C2: within one run the Document Fetcher is invoked at most twice for any
\* URL, and not at all for a URL that was processed when the scan began,
\* whatever the pages list (a URL listed twice included).
C2_AtMostTwoFetches ==
    \A u \in URLs :
        /\ hist.fetches[u] <= 2
        /\ u \in hist.startUrls => hist.fetches[u] = 0

\* C3: a URL whose fetch did not succeed in the previous run is taken up
\* again (fetched, or at least processed) by the next complete run of the
\* collection, whatever page it is on and whatever status was recorded.
C3_FailedRetriedNextRun ==
    ( /\ variant \in {"J", "D"}
      /\ ListedOnce /\ NoLocalFiles
      /\ pc = "done"
      /\ prev.valid
      /\ ~hist.fault
      /\ ~loc.dry_run
      /\ hist.stop \in {"allseen", "exhausted"} )
    => \A u \in prev.failedSet : hist.fetches[u] > 0 \/ u \in mem.urls

\* C4: no URL is ever recorded as processed without a successful upload of
\* its artifact (fetch path, pre-existing-local-file path, legislation path).
C4_MarkedOnlyAfterUpload == ~hist.unuploaded

\* C5: a fault-free run that follows a fault-free run in which every fetch
\* succeeded, on an unchanged listing, reports downloaded = 0 and skipped = the number
\* of items it lists, makes no fetch, and leaves the processed URLs of the
\* ledger (in memory and on disk) as they were.
C5_SecondRunIdempotent ==
    ( /\ variant \in {"J", "D"}
      /\ pc = "done"
      /\ ~hist.fault
      /\ prev.valid /\ prev.same /\ prev.failedSet = {} )
    => /\ loc.downloaded = 0
       /\ loc.skipped = hist.listed
       /\ \A u \in URLs : hist.fetches[u] = 0
       /\ mem.urls = hist.startUrls
       /\ disk.main.urls \cup
            (IF variant = "D" THEN disk.crawler.urls ELSE {}) = hist.startUrls

\* the second run has listed at least two items, all known from before
C5_Witness ==
    /\ variant \in {"J", "D"}
    /\ pc = "done"
    /\ ~hist.fault
    /\ prev.valid /\ prev.same /\ prev.failedSet = {}
    /\ hist.listed >= 2
    /\ loc.skipped = hist.listed
    /\ Cardinality(hist.startUrls) >= 2

\* C6: when the status was completed at scan start and the first page
\* yielded items that were all in the ledger already, page 1 is the only
\* listing page requested and the scan stopped on it.
C6_IncrementalStopsAfterFirstPage ==
    ( /\ variant \in {"J", "D"}
      /\ hist.startCat = "completed"
      /\ Len(hist.flags) >= 1
      /\ hist.flags[1]
      /\ Range(PageOf(site, 1)) \subseteq hist.startUrls )
    => hist.pagesReq = <<1>> /\ hist.stop = "allseen"

\* an incremental scan of a collection of two pages ended after page 1
C6_Witness ==
    /\ variant = "J"
    /\ pc = "done"
    /\ hist.startCat = "completed"
    /\ hist.flags = <<TRUE>>
    /\ Range(PageOf(site, 1)) \subseteq hist.startUrls
    /\ get_total_pages(site) >= 2
    /\ loc.total_pages >= 2
    /\ hist.pagesReq = <<1>>

\* C7: a scan of either judgment crawler that began with a status other than
\* completed and was not cut short by a fault requests every page of the
\* collection: an all-seen page does not end it.
C7_GapFillRequestsAllPages ==
    ( /\ variant \in {"J", "D"}
      /\ ListedOnce
      /\ pc \in {"finish", "done"}
      /\ hist.startCat # "completed"
      /\ ~hist.fault )
    => Len(hist.pagesReq) = get_total_pages(site)

\* page p of the legislation listing holds only ids that were downloaded
\* before this scan
AllDownloadedBefore(p) ==
    Range(PageOf(site, p)) \subseteq hist.startUrls

\* the number of consecutive such pages that end with page n
RECURSIVE SeenRun(_)
SeenRun(n) ==
    IF n = 0 \/ ~AllDownloadedBefore(n) THEN 0 ELSE 1 + SeenRun(n - 1)

\* C8: in the weekly legislation scan the consecutive count after each page
\* is the number of all-downloaded pages in a row ending with that page (a
\* page with any other item resets it to 0), and the scan has stopped early
\* exactly when that number reached two; without weekly_mode there is no
\* count and no early stop.
C8_WeeklyStopAfterTwoSeenPages ==
    variant = "L" =>
        /\ loc.consecutive =
             (IF loc.weekly_mode THEN SeenRun(Len(hist.flags)) ELSE 0)
        /\ hist.stop = "weekly" <=>
             (loc.weekly_mode /\ SeenRun(Len(hist.flags)) >= WeeklyStopPages)

\* an all-downloaded page, then a page with an item to download, then an
\* all-downloaded page again: the count is back at one and the scan went on
C8_Witness ==
    /\ variant = "L"
    /\ loc.weekly_mode
    /\ hist.flags = <<TRUE, FALSE, TRUE>>
    /\ AllDownloadedBefore(1) /\ ~AllDownloadedBefore(2)
    /\ AllDownloadedBefore(3)
    /\ loc.consecutive = 1
    /\ hist.stop # "weekly"

\* C9: when an incremental scan stops early on an all-seen page, every item
\* listed on the older pages is in the ledger.
C9_OlderPagesKnownAtEarlyStop ==
    ( /\ variant = "J"
      /\ ListedOnce /\ NoLocalFiles
      /\ loc.is_incremental
      /\ hist.stop = "allseen"
      /\ prev.valid
      /\ ~hist.fault )
    => \A i \in (loc.page * PageSize + 1)..Len(site) : site[i] \in mem.urls

\* C10: whatever step a persist operation has reached or was killed at, no
\* canonical state file is cut off, and the file of the last persist holds
\* either the complete version it held before or the complete new one.
C10_CanonicalFileNeverTorn ==
    /\ \A f \in StateFiles : fs.files[f].canon.kind # "truncated"
    /\ fs.writer # "none" =>
         fs.files[StateFileOf(fs.writer)].canon \in {fs.old, fs.new}

\* the persist ended between the complete temporary file and the rename:
\* the canonical file still holds the complete previous version
C10_Witness ==
    /\ fs.step = "idle"
    /\ fs.writer # "none"
    /\ fs.old.kind = "complete"
    /\ fs.files[StateFileOf(fs.writer)].tmp = fs.new
    /\ fs.files[StateFileOf(fs.writer)].canon = fs.old

\* C11: every URL whose mark_processed / mark_downloaded call returned with
\* the state file written is processed in the ledger that any later process
\* of the same crawler loads from the files.
C11_AckedMarksSurviveRestart ==
    \A v \in Crawlers : call.acked[v] \subseteq ledger_of(v, disk).urls

\* a process has just loaded a ledger in which a URL marked by an earlier
\* process of the same crawler is processed
C11_Witness ==
    /\ call.last.name = "open"
    /\ \E u \in call.acked[variant] : is_processed(mem, u)

\* C12: a status given to set_category_status is the status that the next
\* process of the same crawler loads, when no file write failed and the
\* other judgment crawler set no status in between.
C12_StatusSurvivesRestart ==
    \A v \in {"J", "D"} :
        ( /\ variant = v
          /\ call.last.name = "open"
          /\ ~call.fault
          /\ call.status[v] # "none"
          /\ \A o \in {"J", "D"} \ {v} : call.status[o] = "none" )
        => mem.cat = call.status[v]

\* C13: a scan of the judgment crawlers that began with an empty ledger, on a
\* listing of n distinct items, without a listing, state-file or browser
\* fault and with every fetcher call returning success, ends with
\* downloaded = n, skipped = 0, failed = 0, the n URLs in the ledger and the
\* status completed.
C13_FreshScanDownloadsAll ==
    ( /\ variant \in {"J", "D"}
      /\ pc = "done"
      /\ hist.startUrls = {}
      /\ ListedOnce /\ NoLocalFiles
      /\ ~loc.dry_run
      /\ ~hist.fault
      /\ ~hist.unsuccessful )
    => /\ loc.downloaded = Len(site)
       /\ loc.skipped = 0
       /\ loc.failed = 0
       /\ Range(site) \subseteq mem.urls
       /\ mem.cat = "completed"

\* C14: a pass of the item loop that invokes the fetcher invokes it once or
\* twice (twice only after a raised call and a recycled browser), counts the
\* item exactly once as downloaded or failed, and goes on to the next item
\* of the scan, also when the recycle or the retry raises (passes that end
\* with the periodic browser restart aside).
C14_RaiseRetriedOnceThenCounted ==
    [][\A u \in URLs :
          ( /\ variant \in {"J", "D"}
            /\ pc = "item"
            /\ hist'.fetches[u] > hist.fetches[u]
            /\ loc.items_since_restart + 1 < RestartEvery )
          => /\ hist'.fetches[u] <= hist.fetches[u] + 2
             /\ hist'.fetches[u] = hist.fetches[u] + 2 => hist'.unsuccessful
             /\ loc'.downloaded + loc'.failed
                  = loc.downloaded + loc.failed + 1
             /\ loc'.idx = loc.idx + 1
             /\ pc' \in {"item", "pageEnd"}]_vars

\* C15: when the category loop of a run has ended, every discovered
\* collection has been scanned, whichever scans raised.
C15_LaterCollectionsStillScanned ==
    (pc = "run" /\ call.ended) => call.scanned = 1..call.n

\* a scan that ended without having listed a single item of a collection that
\* has items (no listing page could be read), or that was left by an
\* exception
ScanAbandoned ==
    /\ variant \in {"J", "D"}
    /\ pc = "done"
    /\ site # <<>>
    /\ hist.stop = "abort" \/ hist.listed = 0

\* C16: after an abandoned scan the persisted status of the collection is the
\* status it had when the scan began, and it is not completed.
C16_AbandonedScanKeepsStatus ==
    ScanAbandoned
    => /\ ledger_of(variant, disk).cat = hist.startCat
       /\ ledger_of(variant, disk).cat # "completed"

\* C17: in every crawler and mode, a further listing page is requested only
\* when the page requested last had at least one item.
C17_EmptyPageEndsPagination ==
    (pc = "list" /\ hist.pagesReq # <<>>) => loc.entries # <<>>

\* C20: a mark_processed call of ScraperTracker or StateManager whose file
\* write fails returns, leaves both state files as they were and the URL
\* processed in memory; and no call made while the process lives removes a
\* URL from the ledger in memory.
C20_FailedWriteKeepsMemoryAndFile ==
    [][ /\ ( /\ variant \in {"J", "D"}
             /\ pc = "loaded"
             /\ call'.last.name = "mark"
             /\ ~call'.last.ok )
           => /\ pc' = "loaded"
              /\ disk' = disk
              /\ is_processed(mem', call'.last.u)
        /\ ( /\ variant \in {"J", "D"}
             /\ pc = "loaded" /\ pc' = "loaded" )
           => \A u \in LedgerURLs :
                 is_processed(mem, u) => is_processed(mem', u) ]_vars

\* a mark call has failed to write: the URL is processed in memory, it is
\* not in the files, and the files still hold what an earlier call wrote
C20_Witness ==
    /\ variant \in {"J", "D"}
    /\ pc = "loaded"
    /\ call.last.name = "mark" /\ ~call.last.ok
    /\ is_processed(mem, call.last.u)
    /\ call.last.u \notin ledger_of(variant, disk).urls
    /\ call.acked[variant] # {}
    /\ call.acked[variant] \subseteq ledger_of(variant, disk).urls

\* C18: is_processed(url) of either class answers true exactly when url is
\* not empty and the files hold an entry with status success under the
\* trimmed url.
C18_ProcessedIffSuccessEntry ==
    (call.op = "api" /\ call.asked.cls # "none")
    => LET k == strip(call.asked.url) IN
       call.asked.ret =
          ( /\ call.asked.url # <<>>
            /\ \/ call.main[k] = "success"
               \/ call.asked.cls = "D" /\ k \in call.crawler )

\* the file a ledger was loaded from is not a state file as the crawlers
\* write it
Malformed(f) ==
    \/ f.kind \in {"invalid", "nonobject"}
    \/ f.kind = "object" /\ (f.f1 # "dict" \/ f.f2 # "dict")

\* C19: a ledger loaded from a missing or malformed state file is the empty
\* ledger of the constructor, and no ledger method called on it raises.
C19_LoadTolerant ==
    (call.op = "load" /\ call.cls # "none")
    => /\ call.from.kind = "absent" => call.loaded = Fresh
       /\ Malformed(call.from) => call.loaded = Fresh /\ ~call.raised

\* C21: a sync_to_main_state that completes leaves scraper_state.json with
\* the URLs of both files, every entry it already had unchanged, the
\* entries of crawler_state.json for the other URLs, and in a state that a
\* further merge of the same files does not change.
C21_MergeIsUnionKeepingPrimary ==
    [][ ( /\ call.op = "entries"
          /\ call'.last.name = "sync_to_main_state"
          /\ call'.last.ok )
        => /\ urls_of(call'.main)
                = urls_of(call.main) \cup urls_of(call.crawler)
           /\ \A u \in urls_of(call.main) : call'.main[u] = call.main[u]
           /\ \A u \in urls_of(call.crawler) \ urls_of(call.main) :
                 call'.main[u] = call.crawler[u]
           /\ call'.crawler = call.crawler
           /\ merge(call'.main, call'.crawler) = call'.main ]_vars

\* a merge has completed on a URL that both files held with different
\* content
C21_Witness ==
    /\ call.op = "entries"
    /\ call.last.name = "sync_to_main_state" /\ call.last.ok
    /\ \E u \in LedgerURLs :
          /\ call.crawler[u].status # "absent"
          /\ call.main[u].status # "absent"
          /\ call.main[u] # call.crawler[u]

\* the file a mark_processed call of class cls writes
ledger_file(c, cls) == IF cls = "J" THEN c.main ELSE c.crawler

\* C28: a mark_processed call with the default status leaves the entry of
\* its url with status success and the given metadata and every other entry
\* as it was; when it repeats the call before it, the ledger has the same
\* URLs as after the first call and the entry differs at most in its
\* timestamp.
C28_MarkProcessedIdempotent ==
    [][ ( /\ call.op = "entries"
          /\ call'.last.name = "mark_processed"
          /\ call'.last.status = "success" )
        => LET cls == call'.last.cls
               u == call'.last.url
               pre == ledger_file(call, cls)
               post == ledger_file(call', cls)
           IN
           /\ post[u].status = "success"
           /\ post[u].metadata = stored_metadata(call'.last.metadata)
           /\ \A w \in LedgerURLs \ {u} : post[w] = pre[w]
           /\ ledger_file(call', IF cls = "J" THEN "D" ELSE "J")
                 = ledger_file(call, IF cls = "J" THEN "D" ELSE "J")
           /\ call'.last.again
                 => /\ urls_of(post) = urls_of(pre)
                    /\ post[u].status = pre[u].status
                    /\ post[u].metadata = pre[u].metadata ]_vars

\* the same mark_processed call has been made twice in a row, with metadata,
\* in a ledger that holds another entry
C28_Witness ==
    /\ call.op = "entries"
    /\ call.last.name = "mark_processed"
    /\ call.last.again
    /\ call.last.metadata # "None"
    /\ \E w \in LedgerURLs \ {call.last.url} :
          ledger_file(call, call.last.cls)[w].status # "absent"

\* C22: a run of the daily crawler or of the weekly legislation crawler that
\* got past the collection discovery ends with all collections scanned and
\* the new items and the statistics handed to the Notifier, also when an
\* item failed
C22_RunEndsWithNotifierHandOff ==
    (/\ pc = "proc" /\ call.op = "proc" /\ call.phase = "exit"
     /\ variant = "D" \/ (variant = "L" /\ call.weekly)
     /\ call.discovered)
    => (call.k > call.n /\ call.handed)

\* C23: whatever happens inside the Notifier of the daily crawler (user
\* lookup, email send), the run returns: the exit code stays 0 and the
\* ledger and the category state, in memory and in the files, are as they
\* were when the Notifier was called
C23_NotifierFailureContained ==
    (/\ pc = "proc" /\ call.op = "proc" /\ call.phase = "exit"
     /\ variant = "D" /\ call.handed)
    => (call.code = 0 /\ World = call.before)

\* C25: the exit code of a process is non-zero exactly when the discovery
\* failed (no collection found, or the site not reachable at all); failed
\* items and failed collections leave it 0
C25_ExitCodeIffDiscoveryFatal ==
    (pc = "proc" /\ call.op = "proc" /\ call.phase = "exit")
    => ((call.code # 0) <=> call.fatal)

\* the process has come to its end
Ended == pc = "proc" /\ call.op = "proc" /\ call.phase = "exit"

\* C26: every run comes to its end, and a run that found its collections
\* has written the end-of-run summary with the counts by then, whatever
\* items or collections failed
C26_RunReachesSummary ==
    /\ (pc = "proc") ~> Ended
    /\ [](Ended /\ call.discovered => call.summary)

\* C24: throughout a dry run of the daily crawler no state file changes (no
\* URL is appended to crawler_state.json, nothing is merged into
\* scraper_state.json at the end of the run), the Document Fetcher is not
\* called and the in-memory ledger gains no URL, while every listed item
\* that the ledger does not hold is appended to the new-items list and
\* counted as downloaded
C24_DryRunOnlyReports ==
    [][(variant = "D" /\ loc.dry_run /\ pc # "idle") =>
         /\ disk' = disk
         /\ \A u \in URLs : hist'.fetches[u] = 0
         /\ pc' # "idle" => mem'.urls = mem.urls
         /\ (pc = "item" /\ pc' # "idle"
             /\ ~is_processed(mem, loc.entries[loc.idx])) =>
              /\ loc'.new_items = Append(loc.new_items, loc.entries[loc.idx])
              /\ loc'.downloaded = loc.downloaded + 1
              /\ loc'.failed = loc.failed]_vars

\* a dry run has come to its end after an earlier run had downloaded an item:
\* it skipped a known item and reported two unseen ones
C24_Witness ==
    /\ variant = "D" /\ loc.dry_run /\ pc = "done"
    /\ loc.skipped > 0
    /\ Len(loc.new_items) >= 2
    /\ loc.downloaded = Len(loc.new_items)
    /\ disk.crawler.urls # {}
    /\ Range(loc.new_items) \cap mem.urls = {}

C30_RecycledEvery40Fetched ==
    /\ [](pc = "items" =>
            /\ loc.items_since_restart <= 39
            /\ loc.items_since_restart = call.fetched % RestartEvery
            /\ call.recycles = call.fetched \div RestartEvery)
    /\ [][(pc = "idle" /\ pc' = "items") =>
            loc'.items_since_restart = 0]_vars
    /\ [][(pc = "items" /\ pc' = "items"
           /\ call'.last \in {"skip", "precheck", "dry"}) =>
            loc'.items_since_restart = loc.items_since_restart]_vars

\* the second periodic restart of a scan has happened, after fetches that
\* succeeded, fetches that failed and skipped items
C30_Witness ==
    /\ pc = "items"
    /\ call.recycles = 2
    /\ loc.items_since_restart = 0
    /\ loc.skipped > 0 /\ loc.failed > 0 /\ loc.downloaded > 0
    /\ call.last = "fetch"

\* the place at which the listing shows x first
FirstPos(x) ==
    CHOOSE i \in 1..Len(site) : site[i] = x /\ \A j \in 1..(i - 1) : site[j] # x

\* x stands before y in the listing of the collection
ListedBefore(x, y) ==
    /\ x \in Range(site) /\ y \in Range(site)
    /\ FirstPos(x) < FirstPos(y)

\* C27: the daily crawler fetches in listing order: whenever an item x is
\* fetched, no item y that the listing shows after x has been fetched in
\* this run yet, so that the last fetch of x precedes the first fetch of y
C27_FetchesInListingOrder ==
    [][\A x, y \in URLs :
         (/\ variant = "D"
          /\ x # y
          /\ ListedBefore(x, y)
          /\ hist'.fetches[x] > hist.fetches[x])
         => hist.fetches[y] = 0]_vars

\* the scan of this run is under way or over
InScan == pc \in {"list", "item", "pageEnd", "finish", "done"}

\* C31: between the items of a non-dry scan of the judgment crawlers the
\* count of downloaded items is the number of URLs the ledger has gained
\* since the scan began, and in the daily crawler it is also the length of
\* the new-items list, whose URLs are all in the ledger
C31_DownloadedCountMatchesLedger ==
    (variant \in {"J", "D"} /\ InScan /\ ~loc.dry_run)
    => /\ loc.downloaded = Cardinality(mem.urls \ hist.startUrls)
       /\ variant = "D" =>
            /\ loc.downloaded = Len(loc.new_items)
            /\ Range(loc.new_items) \subseteq mem.urls

\* C32: no ledger operation of a crawler (mark_processed, mark_downloaded,
\* mark_failed, set_category_status with their saves, sync_to_main_state)
\* takes a URL out of the in-memory ledger of the living process, and no step
\* at all takes a URL out of scraper_state.json, crawler_state.json or the
\* downloaded map of the legislation state file
C32_LedgerOnlyGrows ==
    [][/\ (pc = "loaded" /\ pc' = "loaded") => mem.urls \subseteq mem'.urls
       /\ disk.main.urls \subseteq disk'.main.urls
       /\ disk.crawler.urls \subseteq disk'.crawler.urls
       /\ disk.leg.urls \subseteq disk'.leg.urls]_vars

\* a merge has just been written into a primary file that held a URL the
\* crawler file does not hold
C32_Witness ==
    /\ call.last.name = "sync" /\ call.last.ok
    /\ disk.crawler.urls # {}
    /\ disk.main.urls \ disk.crawler.urls # {}

\* C33: the first listing page a legislation scan processes is the page the
\* cursor loaded from the state file records (page 1 when it records none)
C33_StartsFromRecordedPage ==
    [][(variant = "L" /\ hist.pagesReq = <<>> /\ hist'.pagesReq # <<>>)
       => hist'.pagesReq[1] = Max(1, mem.last_page)]_vars

\* C34: after a daily-crawler run (not --dry-run) in which no state file
\* write failed, every URL the run has marked processed is in
\* scraper_state.json, and the ledger the original scraper loads from it
\* answers is_processed for it
C34_SyncedRunIsKnownToScraper ==
    (variant = "D" /\ pc = "proc" /\ call.phase \in {"notify", "exit"}
       /\ ~call.dry_run /\ ~call.write_failed)
    => \A u \in call.marked :
         u \in disk.main.urls /\ is_processed(load_state(disk), u)

C34_Witness ==
    /\ variant = "D" /\ pc = "proc" /\ call.phase = "exit"
    /\ ~call.dry_run /\ ~call.write_failed
    /\ call.marked # {}
    /\ call.marked \subseteq disk.main.urls

\* C35: when two threads have called mark_processed with different URLs and
\* both calls have returned, crawler_state.json holds both URLs
C35_ConcurrentMarksBothPersisted ==
    (pc = "threads"
       /\ (\A t \in Threads : call.th[t].returned)
       /\ call.th[1].url # call.th[2].url)
    => {call.th[1].url, call.th[2].url} \subseteq disk.crawler.urls

\* the page loop of a scan of scrape_category is running
InPagesJ == variant = "J" /\ pc \in {"list", "item", "pageEnd"}

C37_EveryItemCountedOnce ==
    (pc = "done" /\ hist.stop # "abort")
    => loc.downloaded + loc.skipped + loc.failed = hist.listed

\* a scan has ended with an item in each of the three counters
C37_Witness ==
    /\ pc = "done" /\ hist.stop # "abort"
    /\ loc.downloaded > 0 /\ loc.skipped > 0 /\ loc.failed > 0
    /\ loc.downloaded + loc.skipped + loc.failed = hist.listed

\* C38: in the legislation state (resume=True) no id is in both the
\* downloaded map and the failed map, in memory and in the state file, after
\* any sequence of runs
C38_DownloadedAndFailedDisjoint ==
    /\ disk.leg.urls \cap disk.leg.failed = {}
    /\ variant = "L" => mem.urls \cap mem.failed = {}

\* an id the state file still records as failed has just been downloaded: it
\* is in the downloaded map in memory and no longer in the failed map
C38_Witness ==
    /\ variant = "L" /\ resume
    /\ \E u \in URLs : /\ u \in disk.leg.failed /\ u \in mem.urls
                       /\ u \notin mem.failed /\ hist.fetches[u] > 0
    /\ mem.failed # {}

\* C39: in both judgment crawlers the stop check after a listing page that
\* gave zero items (a failed listing fetch reported as empty included) does
\* not end the scan as all-seen, whatever the collection's status: the scan
\* goes on to the next page of the range
C39_EmptyPageNeverAllSeen ==
    [][(variant \in {"J", "D"} /\ pc = "pageEnd" /\ loc.entries = <<>>
          /\ pc' # "idle")
       => /\ hist'.stop # "allseen"
          /\ loc.page < loc.total_pages
               => pc' = "list" /\ loc'.page = loc.page + 1]_vars

\* the incremental scan of a completed collection has passed a listing page
\* that was reported empty and is about to request the next page
C39_Witness ==
    /\ variant = "J" /\ pc = "list"
    /\ loc.is_incremental /\ hist.startCat = "completed"
    /\ loc.entries = <<>> /\ loc.page >= 2
    /\ Len(hist.pagesReq) = loc.page - 1
    /\ hist.stop = "none"

====
